---- MODULE Spec2Model ----
(***************************************************************************)
(* The `op build` engine of octopilot-pipeline-tools                       *)
(* (internal/cmd/build.go, kept in src/internal/cmd/start_registry.go      *)
(* lines 333-1275): environment sanitation, the per-artifact push path     *)
(* (direct pack, per-platform fan-out, manifest-list assembly, version     *)
(* re-tag, propagation wait), the delegated paths and the writing of       *)
(* build_result.json.                                                      *)
(*                                                                         *)
(* Strings are sequences of atoms.  Every literal the code searches for    *)
(* ("_linux_", "latest", "localhost:5001", "/", ":", "-", "@") is an atom  *)
(* of its own and no other atom contains one of them, so Contains, Split,  *)
(* HasSuffix, TrimSuffix, LastIndex and ReplaceAll on atoms compute what   *)
(* the Go functions compute on the characters.  The empty string is <<>>.  *)
(***************************************************************************)
EXTENDS Integers, Sequences, FiniteSets, TLC

(* ---------------------------------------------------------------------- *)
(* Bounds of the model                                                     *)
(* ---------------------------------------------------------------------- *)
MaxArtifacts == 2
MaxPlatforms == 2
MaxPolls == 2

(* ---------------------------------------------------------------------- *)
(* String helpers (package strings)                                        *)
(* ---------------------------------------------------------------------- *)
Contains(s, a) == \E i \in DOMAIN s : s[i] = a

Index(s, a) == IF Contains(s, a)
               THEN CHOOSE i \in DOMAIN s : s[i] = a /\ \A j \in 1..(i-1) : s[j] # a
               ELSE 0

LastIndex(s, a) == IF Contains(s, a)
                   THEN CHOOSE i \in DOMAIN s : s[i] = a /\ \A j \in (i+1)..Len(s) : s[j] # a
                   ELSE 0

HasPrefix(s, p) == Len(p) <= Len(s) /\ SubSeq(s, 1, Len(p)) = p

HasSuffix(s, p) == Len(p) <= Len(s) /\ SubSeq(s, Len(s) - Len(p) + 1, Len(s)) = p

TrimSuffix(s, p) == IF HasSuffix(s, p) THEN SubSeq(s, 1, Len(s) - Len(p)) ELSE s

ReplaceAll(s, a, b) == [i \in DOMAIN s |-> IF s[i] = a THEN b ELSE s[i]]

\* a split that keeps everything before the last occurrence of sep
SplitHeadLast(s, sep) == IF Contains(s, sep) THEN SubSeq(s, 1, LastIndex(s, sep) - 1) ELSE s

\* strings.Split(val, sep)[0]: the part before the first occurrence of sep
SplitHead(s, sep) == IF Contains(s, sep) THEN SubSeq(s, 1, Index(s, sep) - 1) ELSE s

\* strings.Split(base, "-") and its last element
LastSegment(s, sep) == SubSeq(s, LastIndex(s, sep) + 1, Len(s))

RECURSIVE SeqsUpTo(_, _)
SeqsUpTo(S, n) == IF n = 0 THEN {<<>>}
                  ELSE LET shorter == SeqsUpTo(S, n - 1)
                       IN  shorter \cup {Append(q, x) : q \in shorter, x \in S}

Range(f) == {f[i] : i \in DOMAIN f}

(* ---------------------------------------------------------------------- *)
(* Environment sanitation (RunE, lines 398-422)                            *)
(* ---------------------------------------------------------------------- *)
cleanEnvVars == <<"DOCKER_METADATA_OUTPUT_VERSION", "SKAFFOLD_TAG", "VERSION", "TAG", "IMAGE_TAG">>

\* the variable of line 917, read by BuildKit
Attest == "BUILDX_NO_DEFAULT_ATTESTATIONS"

EnvKeys == Range(cleanEnvVars) \cup {"OTHER", Attest}

LinuxSep == "_linux_"

\* One iteration of the loop over cleanEnvVars: st = [env, targetVersion]
CleanOne(st, key) ==
    LET val == st.env[key] IN
    IF val = <<>> THEN st
    ELSE IF Contains(val, LinuxSep)
         THEN LET newVal == SplitHead(val, LinuxSep)
              IN  [env |-> [st.env EXCEPT ![key] = newVal],
                   targetVersion |-> IF st.targetVersion = <<>> THEN newVal
                                     ELSE st.targetVersion]
         ELSE IF st.targetVersion = <<>>
              THEN [st EXCEPT !.targetVersion = val]
              ELSE st

RECURSIVE CleanFrom(_, _)
CleanFrom(st, i) == IF i > Len(cleanEnvVars) THEN st
                    ELSE CleanFrom(CleanOne(st, cleanEnvVars[i]), i + 1)

CleanEnv(e) == CleanFrom([env |-> e, targetVersion |-> <<>>], 1)

(* ---------------------------------------------------------------------- *)
(* Inputs of one `op build` invocation                                     *)
(* ---------------------------------------------------------------------- *)
DMOV == "DOCKER_METADATA_OUTPUT_VERSION"

Amd64 == <<"linux", "/", "amd64">>
Arm64 == <<"linux", "/", "arm64">>
PlatformPool == {<<>>, Amd64, Arm64}

\* --platform lists (strings.Split of the flag, line 1196-1199), up to the
\* renaming of the two architectures: the first one named is amd64
PlatformLists == {l \in SeqsUpTo(PlatformPool, MaxPlatforms) :
                    \A i \in DOMAIN l : l[i] = Arm64 => \E j \in 1..(i-1) : l[j] = Amd64}

\* BuildpackArtifact.Env entries, "K=V" strings
EnvKV == <<"K", "=", "a", "=", "b">>
EnvPrivate == <<"BP_GO_PRIVATE", "=", "corp">>
EnvNoEquals == <<"NOEQ">>

Base == [imageName |-> <<"base">>, kind |-> "buildpack", runImage |-> <<>>, env |-> <<EnvKV>>]
App == [imageName |-> <<"app">>, kind |-> "buildpack", runImage |-> <<"base">>,
        env |-> <<EnvPrivate, EnvNoEquals>>]
XApp == [imageName |-> <<"x", "-", "app">>, kind |-> "docker", runImage |-> <<>>, env |-> <<>>]
Chart == [imageName |-> <<"my", "-", "chart">>, kind |-> "buildpack", runImage |-> <<>>,
          env |-> <<EnvKV>>]
ArtifactPool == {Base, App, XApp, Chart}

\* skaffold.yaml build.artifacts in declared order; image names are unique
ArtifactLists == {l \in SeqsUpTo(ArtifactPool, MaxArtifacts) :
                    \A i, j \in DOMAIN l : i # j => l[i].imageName # l[j].imageName}

\* --repo, or util.ResolveDefaultRepo, which falls back to "localhost:5001" and
\* never returns the empty string
GhcrRepo == <<"ghcr.io", "/", "x">>
SlashRepo == <<"ghcr.io", "/", "y", "/">>
LocalRepo == <<"localhost:5001">>
RepoPool == {GhcrRepo, LocalRepo}

TtlUUID == <<"uuid">>

V1 == <<"v1">>
V2 == <<"v2">>
V1Arm == <<"v1", "_linux_", "arm64">>

NoEnv == [k \in EnvKeys |-> <<>>]

\* Ambient environments of the engine runs
EngineEnvs == {NoEnv,
               [NoEnv EXCEPT ![DMOV] = V1Arm],
               [NoEnv EXCEPT !["SKAFFOLD_TAG"] = V2]}

\* build_result.json left by an earlier run
OldContract == <<[imageName |-> <<"old">>,
                  tag |-> <<"ghcr.io", "/", "x", "/", "old", ":", "latest", "@", "sha256", ":", "d0">>]>>

(* ---------------------------------------------------------------------- *)
(* build_result.json as bytes: json.NewEncoder(f).Encode(BuildResult) and  *)
(* json.Unmarshal into BuildResult.  A text is a sequence of atoms; the     *)
(* atoms of a name or tag that need no escaping stand for themselves        *)
(* ---------------------------------------------------------------------- *)
Quote == "\""
Backslash == "\\"

\* a string written without escaping anything
Unescaped(c) == <<c>>

\* encoding/json string escapes (the Encoder escapes HTML characters too)
Escaped(c) ==
    IF c \in {Quote, Backslash} THEN <<Backslash, c>>
    ELSE IF c = "\n" THEN <<Backslash, "n">>
    ELSE IF c = "<" THEN <<Backslash, "u003c">>
    ELSE <<c>>

RECURSIVE EscapedAll(_)
EscapedAll(str) == IF str = <<>> THEN <<>> ELSE Escaped(Head(str)) \o EscapedAll(Tail(str))

EncodeString(str) == <<Quote>> \o EscapedAll(str) \o <<Quote>>

\* BuildEntry{ImageName `json:"imageName"`, Tag `json:"tag"`}
EncodeEntry(b) ==
    <<"{">> \o EncodeString(<<"imageName">>) \o <<":">> \o EncodeString(b.imageName)
        \o <<",">> \o EncodeString(<<"tag">>) \o <<":">> \o EncodeString(b.tag) \o <<"}">>

RECURSIVE EncodeEntries(_)
EncodeEntries(builds) ==
    IF builds = <<>> THEN <<>>
    ELSE EncodeEntry(Head(builds))
            \o (IF Len(builds) > 1 THEN <<",">> ELSE <<>>) \o EncodeEntries(Tail(builds))

\* Encoder.Encode(BuildResult{Builds: builds}): one line, newline-terminated
Encode(builds) ==
    <<"{">> \o EncodeString(<<"builds">>) \o <<":", "[">> \o EncodeEntries(builds)
        \o <<"]", "}", "\n">>

JSONSpace == {" ", "\n"}

RECURSIVE SkipSpace(_, _)
SkipSpace(text, i) ==
    IF i <= Len(text) /\ text[i] \in JSONSpace THEN SkipSpace(text, i + 1) ELSE i

SyntaxError == [ok |-> FALSE, type |-> "none", v |-> <<>>, next |-> 0]
Parsed(type, v, next) == [ok |-> TRUE, type |-> type, v |-> v, next |-> next]

\* a JSON string from the position after its opening quote
RECURSIVE ScanString(_, _, _)
ScanString(text, i, acc) ==
    IF i > Len(text) THEN SyntaxError
    ELSE IF text[i] = Quote THEN Parsed("string", acc, i + 1)
    ELSE IF text[i] = "\n" THEN SyntaxError
    ELSE IF text[i] = Backslash
         THEN IF i + 1 > Len(text) THEN SyntaxError
              ELSE IF text[i + 1] \in {Quote, Backslash}
                   THEN ScanString(text, i + 2, Append(acc, text[i + 1]))
              ELSE IF text[i + 1] = "n" THEN ScanString(text, i + 2, Append(acc, "\n"))
              ELSE IF text[i + 1] = "u003c" THEN ScanString(text, i + 2, Append(acc, "<"))
              ELSE SyntaxError
    ELSE ScanString(text, i + 1, Append(acc, text[i]))

\* a JSON value: string, null, array of values, object as a sequence of members
RECURSIVE ParseValue(_, _)
RECURSIVE ParseElements(_, _, _)
RECURSIVE ParseMembers(_, _, _)
ParseValue(text, from) ==
    LET i == SkipSpace(text, from) IN
    IF i > Len(text) THEN SyntaxError
    ELSE IF text[i] = Quote THEN ScanString(text, i + 1, <<>>)
    ELSE IF text[i] = "null" THEN Parsed("null", <<>>, i + 1)
    ELSE IF text[i] = "["
         THEN LET j == SkipSpace(text, i + 1) IN
              IF j <= Len(text) /\ text[j] = "]" THEN Parsed("array", <<>>, j + 1)
              ELSE ParseElements(text, i + 1, <<>>)
    ELSE IF text[i] = "{"
         THEN LET j == SkipSpace(text, i + 1) IN
              IF j <= Len(text) /\ text[j] = "}" THEN Parsed("object", <<>>, j + 1)
              ELSE ParseMembers(text, i + 1, <<>>)
    ELSE SyntaxError

ParseElements(text, from, acc) ==
    LET e == ParseValue(text, from) IN
    IF ~e.ok THEN SyntaxError
    ELSE LET j == SkipSpace(text, e.next)
             elems == Append(acc, [type |-> e.type, v |-> e.v])
         IN  IF j > Len(text) THEN SyntaxError
             ELSE IF text[j] = "," THEN ParseElements(text, j + 1, elems)
             ELSE IF text[j] = "]" THEN Parsed("array", elems, j + 1)
             ELSE SyntaxError

ParseMembers(text, from, acc) ==
    LET i == SkipSpace(text, from) IN
    IF i > Len(text) \/ text[i] # Quote THEN SyntaxError
    ELSE LET k == ScanString(text, i + 1, <<>>) IN
         IF ~k.ok THEN SyntaxError
         ELSE LET c == SkipSpace(text, k.next) IN
              IF c > Len(text) \/ text[c] # ":" THEN SyntaxError
              ELSE LET val == ParseValue(text, c + 1) IN
                   IF ~val.ok THEN SyntaxError
                   ELSE LET j == SkipSpace(text, val.next)
                            members == Append(acc, [key |-> k.v, type |-> val.type, v |-> val.v])
                        IN  IF j > Len(text) THEN SyntaxError
                            ELSE IF text[j] = "," THEN ParseMembers(text, j + 1, members)
                            ELSE IF text[j] = "}" THEN Parsed("object", members, j + 1)
                            ELSE SyntaxError

\* the last member of an object with the given key, "absent" when there is none
Member(members, key) ==
    LET at == {i \in DOMAIN members : members[i].key = key} IN
    IF at = {} THEN [type |-> "absent", v |-> <<>>]
    ELSE LET last == CHOOSE i \in at : \A j \in at : j <= i
         IN  [type |-> members[last].type, v |-> members[last].v]

\* a string field of a struct: absent or null leaves the zero value
FieldOK(m) == m.type \in {"string", "null", "absent"}
FieldOf(m) == IF m.type = "string" THEN m.v ELSE <<>>

\* one element of "builds" into a BuildEntry
EntryOK(e) ==
    \/ e.type = "null"
    \/ /\ e.type = "object"
       /\ FieldOK(Member(e.v, <<"imageName">>))
       /\ FieldOK(Member(e.v, <<"tag">>))
EntryOf(e) ==
    IF e.type = "object"
    THEN [imageName |-> FieldOf(Member(e.v, <<"imageName">>)), tag |-> FieldOf(Member(e.v, <<"tag">>))]
    ELSE [imageName |-> <<>>, tag |-> <<>>]

\* json.Unmarshal(data, &BuildResult{})
Unmarshal(data) ==
    LET top == ParseValue(data, 1)
        bad == [ok |-> FALSE, builds |-> <<>>]
    IN  IF ~top.ok \/ SkipSpace(data, top.next) <= Len(data) THEN bad
        ELSE IF top.type = "null" THEN [ok |-> TRUE, builds |-> <<>>]
        ELSE IF top.type # "object" THEN bad
        ELSE LET b == Member(top.v, <<"builds">>) IN
             IF b.type \in {"absent", "null"} THEN [ok |-> TRUE, builds |-> <<>>]
             ELSE IF b.type # "array" THEN bad
             ELSE IF \E i \in DOMAIN b.v : ~EntryOK(b.v[i]) THEN bad
             ELSE [ok |-> TRUE, builds |-> [i \in DOMAIN b.v |-> EntryOf(b.v[i])]]

\* What is on disk. The file is kept as its state and the list the encoder
\* was given: a complete file holds the encoding of the list, a file cut short
\* the first half of it, a file os.Create has just made holds nothing.
Bytes(f) ==
    IF f.state = "complete" THEN Encode(f.builds)
    ELSE IF f.state = "cut" THEN SubSeq(Encode(f.builds), 1, Len(Encode(f.builds)) \div 2)
    ELSE <<>>

\* a reader that hands an empty list on to its caller
ReadUnchecked(f) ==
    IF f.state = "absent" THEN [err |-> "reading", builds |-> <<>>]
    ELSE IF ~Unmarshal(Bytes(f)).ok THEN [err |-> "parsing", builds |-> <<>>]
    ELSE [err |-> "", builds |-> Unmarshal(Bytes(f)).builds]

\* util.ReadBuildResult: os.ReadFile, json.Unmarshal, `len(res.Builds) == 0`
ReadBuildResult(f) ==
    IF f.state = "absent" THEN [err |-> "reading", builds |-> <<>>]
    ELSE IF ~Unmarshal(Bytes(f)).ok THEN [err |-> "parsing", builds |-> <<>>]
    ELSE IF Len(Unmarshal(Bytes(f)).builds) = 0 THEN [err |-> "no builds found", builds |-> <<>>]
    ELSE [err |-> "", builds |-> Unmarshal(Bytes(f)).builds]

\* no file, and the file of an earlier run
NoFile == [state |-> "absent", builds |-> <<>>]
OldFile == [state |-> "complete", builds |-> OldContract]

VARIABLES cfg, ambient, env, targetVersion, platforms, artifactsToRun, insecureRegistries,
          pc, ai, pi, path, fullTag, runImage, platformManifests, index, storedRef, polls,
          built, builtImages, registry, file, result, failedOp, events, nextDigest

inputVars == <<cfg, ambient>>
envVars == <<env, targetVersion>>
optVars == <<platforms, artifactsToRun, insecureRegistries>>
artVars == <<path, fullTag, runImage, platformManifests, index, storedRef>>
outVars == <<built, builtImages, registry, file, events, nextDigest>>
vars == <<cfg, ambient, env, targetVersion, platforms, artifactsToRun, insecureRegistries,
          pc, ai, pi, path, fullTag, runImage, platformManifests, index, storedRef, polls,
          built, builtImages, registry, file, result, failedOp, events, nextDigest>>

EngineCfgs ==
    {c \in [artifacts : ArtifactLists, platforms : PlatformLists, repo : RepoPool,
            ttlUUID : {<<>>, TtlUUID}, ttlTag : {<<>>}, push : BOOLEAN,
            onlyArtifact : {<<>>}, insecure : {<<>>}, caPath : {<<>>},
            priorFile : {NoFile, OldFile}] :
        \* the repo flag is overwritten by "ttl.sh" when --ttl-uuid is set (line 444-445),
        \* and a push-disabled run reads neither platforms nor ttl flags
        /\ c.ttlUUID # <<>> => c.repo = GhcrRepo
        /\ ~c.push => (c.platforms = <<>> /\ c.ttlUUID = <<>> /\ c.repo = GhcrRepo)
        \* os.Create and the encoder act on an earlier file in the same way whatever
        \* was built: earlier files are drawn for the runs without a platform list
        /\ c.priorFile # NoFile => c.platforms = <<>>}

\* the state when a command starts at `start`, with `builds` already collected
\* and the registry holding one of `regs`
InitAt(cfgs, envs, start, builds, regs) ==
    /\ cfg \in cfgs
    /\ ambient \in envs
    /\ env = ambient
    /\ targetVersion = <<>>
    /\ platforms = <<>>
    /\ artifactsToRun = <<>>
    /\ insecureRegistries = <<>>
    /\ pc = start
    /\ ai = 1
    /\ pi = 1
    /\ path = "none"
    /\ fullTag = <<>>
    /\ runImage = <<>>
    /\ platformManifests = <<>>
    /\ index = <<>>
    /\ storedRef = <<>>
    /\ polls = 0
    /\ built \in builds
    /\ builtImages = {}
    /\ registry \in regs
    /\ file = cfg.priorFile
    /\ result = "running"
    /\ failedOp = "none"
    /\ events = <<>>
    /\ nextDigest = 1

InitWith(cfgs, envs) == InitAt(cfgs, envs, "sanitize", {<<>>}, {{}})

Init == InitWith(EngineCfgs, EngineEnvs)

(* ---------------------------------------------------------------------- *)
(* Error returns                                                           *)
(* ---------------------------------------------------------------------- *)
\* Every `if err != nil { return fmt.Errorf(...) }` of RunE: the command ends
\* with an error.  The only error that is not returned is waitForImage's
\* (lines 856-859, 1014-1016, 1052-1054), which has no call of Abort.
\* an error return that treats a failed version re-tag as a warning
AbortExceptRetag(op) ==
    IF op = "retag"
    THEN pc' = "wait" /\ result' = result /\ failedOp' = op
    ELSE pc' = "failed" /\ result' = "error" /\ failedOp' = op

\* an error return that lets the platform loop go on after a failed build
AbortKeepsBuilding(op) ==
    IF op \in {"dispatch", "docker"}
    THEN pc' = pc /\ result' = result /\ failedOp' = failedOp
    ELSE pc' = "failed" /\ result' = "error" /\ failedOp' = op

Abort(op) ==
    /\ pc' = "failed"
    /\ result' = "error"
    /\ failedOp' = op

(* ---------------------------------------------------------------------- *)
(* RunE, lines 398-422: environment sanitation                             *)
(* ---------------------------------------------------------------------- *)
Sanitize ==
    /\ pc = "sanitize"
    /\ env' = CleanEnv(env).env
    /\ targetVersion' = CleanEnv(env).targetVersion
    /\ pc' = "configure"
    /\ UNCHANGED <<inputVars, optVars, artVars, outVars, ai, pi, polls, result, failedOp>>

(* ---------------------------------------------------------------------- *)
(* Registry, digests, Go maps                                              *)
(* ---------------------------------------------------------------------- *)
\* A Go map / the registry's tag table: a set of [key, val] with unique keys
MapHas(m, k) == \E e \in m : e.key = k
MapGet(m, k) == (CHOOSE e \in m : e.key = k).val
MapPut(m, k, v) == {e \in m : e.key # k} \cup {[key |-> k, val |-> v]}

\* os.Environ(): the variables that are set, as the process holds them
Environ == {[key |-> <<k>>, val |-> env[k]] : k \in {k \in EnvKeys : env[k] # <<>>}}

\* line 917: append(os.Environ(), "BUILDX_NO_DEFAULT_ATTESTATIONS=1"); of two
\* entries for one key os/exec hands the last one to the subprocess
buildEnv == MapPut(Environ, <<Attest>>, <<"1">>)

Hex(n) == "d" \o ToString(n)

\* the hex digits alone (Hash.Hex), without the algorithm
DigestHexOnly(h) == <<h>>

\* v1.Hash.String(): "sha256:" followed by the hex digits
DigestString(h) == <<"sha256", ":", h>>

ImageOf(h, platform) == [kind |-> "image", digest |-> h, platform |-> platform, manifests |-> <<>>]
IndexOf(h, ms) == [kind |-> "index", digest |-> h, platform |-> <<>>, manifests |-> ms]

\* localhost:5001 and 127.0.0.1:5001 are the same registry
RegistryKey(tag) == ReplaceAll(SplitHead(tag, "@"), "127.0.0.1:5001", "localhost:5001")
Stored(reg, tag) == MapHas(reg, RegistryKey(tag))
Resolve(reg, tag) == MapGet(reg, RegistryKey(tag))
Push(reg, tag, content) == MapPut(reg, RegistryKey(tag), content)

\* the platform of an image built with Target "" (line 616: "Default/Host")
HostPlatform == Amd64
BuiltPlatform(target) == IF target = <<>> THEN HostPlatform ELSE target

\* One call the engine makes, with the options it passes; `out` is what the
\* callee handed back (the ref file of a chart build, the runner's result)
Ev(op, tag) == [op |-> op, ai |-> ai, tag |-> tag, runImage |-> <<>>, platform |-> <<>>,
                publish |-> FALSE, insecure |-> <<>>, env |-> {}, out |-> <<>>,
                digest |-> "", ok |-> TRUE, plainHTTP |-> FALSE, skipVerify |-> FALSE]

\* lines 1087-1094: TRUE when the reference is parsed with name.Insecure, which
\* permits plain HTTP; the test is strings.HasPrefix on the whole tag
parseReferenceForRemote(tag, regs) == \E i \in DOMAIN regs : HasPrefix(tag, regs[i])

\* lines 689-701 and 889-900: TRUE when the remote options of the artifact carry
\* the transport with InsecureSkipVerify; the test is on fullTag
remoteOpts == \E i \in DOMAIN insecureRegistries : HasPrefix(fullTag, insecureRegistries[i])

\* one remote call: the reference parsed for it and the artifact's remote options
Remote(op, tag) == [Ev(op, tag) EXCEPT
                       !.plainHTTP = parseReferenceForRemote(tag, insecureRegistries),
                       !.skipVerify = remoteOpts]

(* ---------------------------------------------------------------------- *)
(* RunE, lines 424-500: options, ttl.sh mode, artifact filter              *)
(* ---------------------------------------------------------------------- *)
Repo == IF cfg.ttlUUID # <<>> THEN <<"ttl.sh">> ELSE cfg.repo

TtlTag == IF cfg.ttlTag = <<>> THEN <<"1h">> ELSE cfg.ttlTag

OptsPlatforms ==
    IF cfg.ttlUUID # <<>>
    THEN IF Len(cfg.platforms) = 0 THEN <<Amd64>>
         ELSE IF Len(cfg.platforms) > 1 THEN SubSeq(cfg.platforms, 1, 1)
         ELSE cfg.platforms
    ELSE cfg.platforms

\* artifactImageNames, lines 1235-1241
artifactImageNames(artifacts) == [i \in DOMAIN artifacts |-> artifacts[i].imageName]

\* the error of lines 479-480: the name asked for and the names available
NotFoundError == [artifact |-> cfg.onlyArtifact, available |-> artifactImageNames(cfg.artifacts)]

\* a filter that keeps every artifact
Unfiltered(arts, name) == arts

Filtered(arts, name) ==
    IF \E i \in DOMAIN arts : arts[i].imageName = name
    THEN <<arts[CHOOSE i \in DOMAIN arts :
                  /\ arts[i].imageName = name
                  /\ \A j \in 1..(i-1) : arts[j].imageName # name]>>
    ELSE <<>>

Configure ==
    /\ pc = "configure"
    /\ \/ \* getAllConfigs / getRunContext / newRunner return an error
          /\ Abort("config")
          /\ UNCHANGED <<optVars, ai>>
       \/ /\ cfg.onlyArtifact # <<>>
          /\ Filtered(cfg.artifacts, cfg.onlyArtifact) = <<>>
          /\ Abort("artifact")
          /\ UNCHANGED <<optVars, ai>>
       \/ /\ cfg.onlyArtifact # <<>> => Filtered(cfg.artifacts, cfg.onlyArtifact) # <<>>
          /\ platforms' = OptsPlatforms
          /\ insecureRegistries' = cfg.insecure
          /\ artifactsToRun' = IF cfg.onlyArtifact # <<>>
                               THEN Filtered(cfg.artifacts, cfg.onlyArtifact)
                               ELSE cfg.artifacts
          /\ ai' = 1
          /\ pc' = IF cfg.push THEN "artifact" ELSE "nopush"
          /\ UNCHANGED <<result, failedOp>>
    /\ UNCHANGED <<inputVars, envVars, artVars, outVars, pi, polls>>

(* ---------------------------------------------------------------------- *)
(* The Build Backend Adapter (skaffold runner), r.Build                    *)
(* ---------------------------------------------------------------------- *)
\* The tag the runner returns for an artifact: <repo>/<image>:<tag>, and the
\* digest when the runner reports one (the mocked runner of
\* TestBuild_MixedArtifacts returns "test-repo/docker-image:latest").
RunnerTag(art, withDigest, h) ==
    LET customTag == IF targetVersion # <<>> THEN targetVersion ELSE <<"latest">>
        ref == (IF Repo = <<>> THEN <<>> ELSE Repo \o <<"/">>) \o art.imageName \o <<":">> \o customTag
    IN  IF withDigest THEN ref \o <<"@">> \o DigestString(h) ELSE ref

\* the runner's result for a list of artifacts, in the order of the list
BuildArtifacts(arts, withDigest, n) ==
    [i \in DOMAIN arts |->
        [imageName |-> arts[i].imageName, tag |-> RunnerTag(arts[i], withDigest, Hex(n + i - 1))]]

\* a contract with the entries in the opposite order
ContractReversed(buildArtifacts) ==
    [i \in DOMAIN buildArtifacts |-> buildArtifacts[Len(buildArtifacts) + 1 - i]]

\* lines 1073-1076: built = the (ImageName, Tag) of each returned artifact
ContractOf(buildArtifacts) == buildArtifacts

\* RunE, lines 1066-1080: push disabled, the whole build is delegated
NoPushBuild ==
    /\ pc = "nopush"
    /\ \/ /\ Abort("skaffold")
          /\ UNCHANGED <<built, events, nextDigest>>
       \/ \E withDigest \in BOOLEAN :
          LET buildArtifacts == BuildArtifacts(artifactsToRun, withDigest, nextDigest) IN
          /\ built' = ContractOf(buildArtifacts)
          /\ nextDigest' = nextDigest + Len(artifactsToRun)
          /\ events' = Append(events, [Ev("skaffold", <<>>) EXCEPT
                                          !.ai = 0, !.env = Environ, !.out = buildArtifacts])
          /\ pc' = "write"
          /\ UNCHANGED <<result, failedOp>>
    /\ UNCHANGED <<inputVars, envVars, optVars, artVars, builtImages, registry, file, ai, pi, polls>>

(* ---------------------------------------------------------------------- *)
(* writeBuildResult, lines 1131-1154                                       *)
(* ---------------------------------------------------------------------- *)
\* a writer that writes the file whatever was built
AnyBuilds(builds) == TRUE

\* line 1132: `if len(builds) > 0`
HasBuilds(builds) == Len(builds) > 0

\* os.Create("build_result.json"): the file exists and is empty
WriteCreate ==
    /\ pc = "write"
    /\ IF HasBuilds(built)
       THEN \/ /\ Abort("create")
               /\ UNCHANGED file
            \/ /\ file' = [state |-> "empty", builds |-> <<>>]
               /\ pc' = "encode"
               /\ UNCHANGED <<result, failedOp>>
       ELSE /\ pc' = "done"
            /\ result' = "ok"
            /\ UNCHANGED <<file, failedOp>>
    /\ UNCHANGED <<inputVars, envVars, optVars, artVars, built, builtImages, registry,
                   events, nextDigest, ai, pi, polls>>

\* json.NewEncoder(f).Encode(buildResult)
WriteEncode ==
    /\ pc = "encode"
    /\ \/ /\ Abort("encode")
          /\ UNCHANGED file
       \/ /\ file' = [state |-> "complete", builds |-> built]
          /\ pc' = "done"
          /\ result' = "ok"
          /\ UNCHANGED failedOp
    /\ UNCHANGED <<inputVars, envVars, optVars, artVars, built, builtImages, registry,
                   events, nextDigest, ai, pi, polls>>

(* ---------------------------------------------------------------------- *)
(* RunE, lines 509-529, 861-879, 1021: one artifact of the push path       *)
(* ---------------------------------------------------------------------- *)
fixedVars == <<cfg, ambient, env, targetVersion, platforms, artifactsToRun, insecureRegistries, file>>

Proceed(next) == pc' = next /\ UNCHANGED <<result, failedOp>>

Art == artifactsToRun[ai]

\* which branch of the loop body handles the artifact
PathOf(art) ==
    IF art.kind = "buildpack"
    THEN IF HasSuffix(art.imageName, <<"-", "chart">>) THEN "chart" ELSE "pack"
    ELSE IF (Len(platforms) > 1 \/ cfg.ttlUUID # <<>>) /\ art.kind = "docker"
         THEN "docker"
         ELSE "delegate"

\* a suffix that keeps the whole image name
WholeName(imageName) == imageName

\* deriveTTLSuffix, lines 1245-1260
deriveTTLSuffix(imageName) ==
    LET noTag == IF LastIndex(imageName, ":") > 1
                 THEN SubSeq(imageName, 1, LastIndex(imageName, ":") - 1)
                 ELSE imageName
        base == SubSeq(noTag, LastIndex(noTag, "/") + 1, Len(noTag))
    IN  LastSegment(base, "-")

TtlFullTag(imageName) ==
    <<"ttl.sh", "/">> \o cfg.ttlUUID \o <<"-">> \o deriveTTLSuffix(imageName) \o <<":">> \o TtlTag

\* lines 514-527 (buildpack artifacts)
PackFullTag(imageName) ==
    IF cfg.ttlUUID # <<>> THEN TtlFullTag(imageName)
    ELSE IF Repo # <<>>
         THEN IF HasSuffix(Repo, <<"/">>)
              THEN Repo \o imageName \o <<":", "latest">>
              ELSE Repo \o <<"/">> \o imageName \o <<":", "latest">>
         ELSE imageName \o <<":", "latest">>

\* lines 871-879 (container-build artifacts)
DockerFullTag(imageName) ==
    IF cfg.ttlUUID # <<>> THEN TtlFullTag(imageName)
    ELSE IF HasSuffix(Repo, <<"/">>)
         THEN Repo \o imageName \o <<":", "latest">>
         ELSE Repo \o <<"/">> \o imageName \o <<":", "latest">>

FullTagOf(art) ==
    IF art.kind = "buildpack" THEN PackFullTag(art.imageName)
    ELSE IF PathOf(art) = "docker" THEN DockerFullTag(art.imageName)
    ELSE <<>>

\* lines 559-563 and 595-600: a run image that names a built artifact
ResolveRunImage(name, images) == IF MapHas(images, name) THEN MapGet(images, name) ELSE name

BeginArtifact ==
    /\ pc = "artifact"
    /\ IF ai > Len(artifactsToRun)
       THEN /\ Proceed("write")
            /\ UNCHANGED <<artVars, pi, polls>>
       ELSE /\ Proceed(PathOf(Art))
            /\ path' = PathOf(Art)
            /\ fullTag' = FullTagOf(Art)
            /\ runImage' = IF Art.kind = "buildpack"
                           THEN ResolveRunImage(Art.runImage, builtImages)
                           ELSE <<>>
            /\ platformManifests' = <<>>
            /\ index' = <<>>
            /\ storedRef' = <<>>
            /\ pi' = 1
            /\ polls' = 0
    /\ UNCHANGED <<fixedVars, ai, built, builtImages, registry, events, nextDigest>>

\* the artifact is finished: `continue` / end of the loop body
NextArtifact == /\ ai' = ai + 1
                /\ Proceed("artifact")

\* built = append(built, ...); builtImages[imageName] = tag
Record(name, tag) ==
    /\ built' = Append(built, [imageName |-> name, tag |-> tag])
    /\ builtImages' = MapPut(builtImages, name, tag)

(* ---------------------------------------------------------------------- *)
(* RunE, lines 535-593: chart artifacts                                    *)
(* ---------------------------------------------------------------------- *)
RefBase(tag) == IF LastIndex(tag, ":") > 1 THEN SubSeq(tag, 1, LastIndex(tag, ":") - 1) ELSE tag

\* strings.SplitN(env, "=", 2)
SplitN2(item) ==
    IF Contains(item, "=")
    THEN <<SubSeq(item, 1, Index(item, "=") - 1), SubSeq(item, Index(item, "=") + 1, Len(item))>>
    ELSE <<item>>

\* for _, env := range art.BuildpackArtifact.Env { ... packEnv[parts[0]] = parts[1] }
RECURSIVE Overlay(_, _, _)
Overlay(m, declared, i) ==
    IF i > Len(declared) THEN m
    ELSE LET parts == SplitN2(declared[i])
         IN  Overlay(IF Len(parts) = 2 THEN MapPut(m, parts[1], parts[2]) ELSE m, declared, i + 1)

GoPrivate == [key |-> <<"BP_GO_PRIVATE">>, val |-> <<"github.com/octopilot/*">>]

\* lines 547-557: the env of a chart build
ChartPackEnv(art, refBase) ==
    Overlay({GoPrivate,
             [key |-> <<"BP_HELM_OCI_REF">>, val |-> refBase],
             [key |-> <<"BP_HELM_OCI_OUTPUT">>, val |-> <<"/out">>]}, art.env, 1)

\* a reader of the ref file that keeps every byte
KeepSpace(s) == s

\* strings.TrimSpace
WhiteSpace == {" ", "\n"}
RECURSIVE TrimLeft(_)
TrimLeft(s) == IF s # <<>> /\ Head(s) \in WhiteSpace THEN TrimLeft(Tail(s)) ELSE s
RECURSIVE TrimRight(_)
TrimRight(s) == IF s # <<>> /\ s[Len(s)] \in WhiteSpace
                THEN TrimRight(SubSeq(s, 1, Len(s) - 1)) ELSE s
TrimSpace(s) == TrimRight(TrimLeft(s))

\* the version helm push gives the chart
ChartVersion == <<"0.1.0">>

ChartBuild ==
    /\ pc = "chart"
    /\ \E ok, newline \in BOOLEAN :
       LET pushed == RefBase(fullTag) \o <<":">> \o ChartVersion
           \* the file <out>/ref the buildpack writes
           refBytes == pushed \o <<"@">> \o DigestString(Hex(nextDigest))
                          \o (IF newline THEN <<"\n">> ELSE <<>>)
           chartRef == TrimSpace(refBytes)
           ev == [Ev("dispatch", fullTag) EXCEPT
                     !.runImage = runImage,
                     !.env = ChartPackEnv(Art, RefBase(fullTag)),
                     !.insecure = insecureRegistries,
                     !.out = IF ok THEN refBytes ELSE <<>>,
                     !.ok = ok]
       IN  /\ events' = Append(events, ev)
           /\ ok \/ ~newline
           /\ IF ok
              THEN /\ registry' = Push(registry, pushed, ImageOf(Hex(nextDigest), <<>>))
                   /\ nextDigest' = nextDigest + 1
                   /\ storedRef' = chartRef
                   /\ Record(Art.imageName, chartRef)
                   /\ NextArtifact
              ELSE /\ Abort("dispatch")
                   /\ UNCHANGED <<registry, nextDigest, storedRef, built, builtImages, ai>>
    /\ UNCHANGED <<fixedVars, path, fullTag, runImage, platformManifests, index, pi, polls>>

(* ---------------------------------------------------------------------- *)
(* RunE, lines 613-687: per-platform direct pack builds                    *)
(* ---------------------------------------------------------------------- *)
TargetPlatforms == IF Len(platforms) = 0 THEN << <<>> >> ELSE platforms

\* the platforms the current artifact fans out over
Targets == IF path = "pack" THEN TargetPlatforms ELSE platforms

\* a platform used in a tag as it is
KeepSlashes(platform) == platform

Sanitized(platform) == ReplaceAll(platform, "/", "-")

\* lines 623-628
CurrentTag(platform) ==
    IF Len(TargetPlatforms) > 1 /\ platform # <<>>
    THEN fullTag \o <<"-">> \o Sanitized(platform)
    ELSE fullTag

\* a dispatch that passes every name on as it is
rewriteNothing(s) == [str |-> s, ok |-> FALSE]

\* lines 637-645
rewriteLocalhost(s) ==
    IF Contains(s, "localhost:5001")
    THEN [str |-> ReplaceAll(s, "localhost:5001", "127.0.0.1:5001"), ok |-> TRUE]
    ELSE IF Contains(s, "127.0.0.1:5001") THEN [str |-> s, ok |-> TRUE]
    ELSE [str |-> s, ok |-> FALSE]

\* lines 602-611 and 662-665: the env map the loop prepares
CertFile == <<"/etc/ssl/certs/registry-ca.crt">>
packEnv(art) ==
    LET declared == Overlay({GoPrivate}, art.env, 1)
    IN  IF cfg.caPath # <<>> THEN MapPut(declared, <<"SSL_CERT_FILE">>, CertFile) ELSE declared

\* lines 633-680: the options of one packBuild call.  The BuildOptions literal
\* of lines 667-680 has no Env field: packEnv is prepared and not passed on.
PackOptions(platform) ==
    LET tagRw == rewriteLocalhost(CurrentTag(platform))
        runRw == rewriteLocalhost(runImage)
    IN  [Ev("dispatch", tagRw.str) EXCEPT
            !.runImage = runRw.str,
            !.platform = platform,
            !.publish = TRUE,
            !.insecure = IF tagRw.ok \/ runRw.ok
                         THEN Append(insecureRegistries, <<"127.0.0.1:5001">>)
                         ELSE insecureRegistries]

\* a loop that re-tags as soon as the platforms are built
AfterFanOutRetagFirst ==
    IF env[DMOV] # <<>> THEN "retag"
    ELSE IF path = "docker" \/ Len(TargetPlatforms) > 1 THEN "get" ELSE "head"

\* a loop that assembles a manifest list for every artifact
AlwaysAssemble == "get"

\* where the loop goes when every platform is built (lines 705-706, 761, 937)
AfterFanOut == IF path = "docker" \/ Len(TargetPlatforms) > 1 THEN "get" ELSE "head"

PackDispatch ==
    /\ pc = "pack"
    /\ \E ok \in BOOLEAN :
       LET platform == Targets[pi]
           po == [PackOptions(platform) EXCEPT !.ok = ok]
       IN  /\ events' = Append(events, po)
           /\ IF ok
              THEN /\ registry' = Push(registry, po.tag,
                                       ImageOf(Hex(nextDigest), BuiltPlatform(platform)))
                   /\ nextDigest' = nextDigest + 1
                   /\ platformManifests' = Append(platformManifests, CurrentTag(platform))
                   /\ IF pi < Len(Targets)
                      THEN pi' = pi + 1 /\ Proceed("pack")
                      ELSE pi' = 1 /\ Proceed(AfterFanOut)
              ELSE /\ Abort("dispatch")
                   /\ UNCHANGED <<registry, nextDigest, platformManifests, pi>>
    /\ UNCHANGED <<fixedVars, path, fullTag, runImage, index, storedRef, polls,
                   built, builtImages, ai>>

(* ---------------------------------------------------------------------- *)
(* RunE, lines 904-935: per-platform container builds                      *)
(* ---------------------------------------------------------------------- *)
\* lines 905-909
PlatformTag(platform) ==
    IF cfg.ttlUUID # <<>> /\ Len(platforms) = 1
    THEN fullTag
    ELSE fullTag \o <<"-">> \o Sanitized(platform)

DockerDispatch ==
    /\ pc = "docker"
    /\ \E ok \in BOOLEAN :
       LET platform == Targets[pi]
           ev == [Ev("docker", PlatformTag(platform)) EXCEPT
                     !.platform = platform, !.publish = TRUE, !.env = buildEnv, !.ok = ok]
       IN  /\ events' = Append(events, ev)
           /\ IF ok
              THEN /\ registry' = Push(registry, ev.tag,
                                       ImageOf(Hex(nextDigest), BuiltPlatform(platform)))
                   /\ nextDigest' = nextDigest + 1
                   /\ platformManifests' = Append(platformManifests, PlatformTag(platform))
                   /\ IF pi < Len(Targets)
                      THEN pi' = pi + 1 /\ Proceed("docker")
                      ELSE pi' = 1 /\ Proceed(AfterFanOut)
              ELSE /\ Abort("docker")
                   /\ UNCHANGED <<registry, nextDigest, platformManifests, pi>>
    /\ UNCHANGED <<fixedVars, path, fullTag, runImage, index, storedRef, polls,
                   built, builtImages, ai>>

(* ---------------------------------------------------------------------- *)
(* RunE, lines 705-772 and 937-977: manifest list, final digest            *)
(* ---------------------------------------------------------------------- *)
\* the version re-tag follows the publish when a version is set (lines 786, 980)
RetagVersion == env[DMOV]
AfterPublish == IF RetagVersion # <<>> THEN "retag" ELSE "wait"

\* lines 774-783: the buildpack path records the artifact right after its digest
\* is known; the container-build path records it after the wait (1018-1019)
RecordNow(ref) ==
    IF path = "pack"
    THEN Record(Art.imageName, ref)
    ELSE UNCHANGED <<built, builtImages>>

\* lines 718-739 and 943-960: remote.Get of one per-platform tag, desc.Image(),
\* mutate.AppendManifests
AssembleGet ==
    /\ pc = "get"
    /\ LET pTag == platformManifests[pi] IN
       \/ /\ Stored(registry, pTag)
          /\ Resolve(registry, pTag).kind = "image"
          /\ index' = Append(index, [digest |-> Resolve(registry, pTag).digest,
                                     platform |-> Resolve(registry, pTag).platform])
          /\ events' = Append(events, Remote("get", pTag))
          /\ IF pi < Len(platformManifests)
             THEN pi' = pi + 1 /\ Proceed("get")
             ELSE pi' = 1 /\ Proceed("writeIndex")
       \/ /\ Abort("get")
          /\ events' = Append(events, [Remote("get", pTag) EXCEPT !.ok = FALSE])
          /\ UNCHANGED <<index, pi>>
    /\ UNCHANGED <<fixedVars, path, fullTag, runImage, platformManifests, storedRef, polls,
                   built, builtImages, registry, nextDigest, ai>>

\* lines 741-759 and 962-977: remote.WriteIndex at fullTag, index.Digest()
WriteIndex ==
    /\ pc = "writeIndex"
    /\ \E ok \in BOOLEAN :
       LET h == Hex(nextDigest)
           ref == fullTag \o <<"@">> \o DigestString(h)
       IN  /\ events' = Append(events, [Remote("writeIndex", fullTag) EXCEPT !.digest = h, !.ok = ok])
           /\ IF ok
              THEN /\ registry' = Push(registry, fullTag, IndexOf(h, index))
                   /\ nextDigest' = nextDigest + 1
                   /\ storedRef' = ref
                   /\ RecordNow(ref)
                   /\ Proceed(AfterPublish)
              ELSE /\ Abort("writeIndex")
                   /\ UNCHANGED <<registry, nextDigest, storedRef, built, builtImages>>
    /\ UNCHANGED <<fixedVars, path, fullTag, runImage, platformManifests, index, polls, ai, pi>>

\* lines 761-772: remoteHead on fullTag
HeadDigest ==
    /\ pc = "head"
    /\ \/ /\ Stored(registry, fullTag)
          /\ LET h == Resolve(registry, fullTag).digest
                 ref == fullTag \o <<"@">> \o DigestString(h)
             IN  /\ events' = Append(events, [Remote("head", fullTag) EXCEPT !.digest = h])
                 /\ storedRef' = ref
                 /\ RecordNow(ref)
          /\ Proceed(AfterPublish)
       \/ /\ Abort("head")
          /\ events' = Append(events, [Remote("head", fullTag) EXCEPT !.ok = FALSE])
          /\ UNCHANGED <<storedRef, built, builtImages>>
    /\ UNCHANGED <<fixedVars, path, fullTag, runImage, platformManifests, index, polls,
                   registry, nextDigest, ai, pi>>

(* ---------------------------------------------------------------------- *)
(* RunE, lines 785-849 and 979-1010: version re-tag                        *)
(* ---------------------------------------------------------------------- *)
\* strings.TrimSuffix(fullTag, "latest") + version
VersionTag(tag, version) == TrimSuffix(tag, <<"latest">>) \o version

\* remote.Get / remoteImage of fullTag, then remote.WriteIndex / remote.Write of
\* what was fetched at the version tag
VersionRetag ==
    /\ pc = "retag"
    /\ LET verTag == VersionTag(fullTag, RetagVersion) IN
       \/ /\ Stored(registry, fullTag)
          /\ registry' = Push(registry, verTag, Resolve(registry, fullTag))
          /\ events' = Append(events, [Remote("retag", verTag) EXCEPT
                                          !.digest = Resolve(registry, fullTag).digest])
          /\ Proceed("wait")
       \/ /\ Abort("retag")
          /\ events' = Append(events, [Remote("retag", verTag) EXCEPT !.ok = FALSE])
          /\ UNCHANGED registry
    /\ UNCHANGED <<fixedVars, artVars, polls, built, builtImages, nextDigest, ai, pi>>

(* ---------------------------------------------------------------------- *)
(* waitForImage, lines 1097-1129, and the end of the loop body             *)
(* ---------------------------------------------------------------------- *)
WaitTag == IF path = "delegate" THEN storedRef ELSE fullTag

\* lines 1018-1019: the container-build path records the artifact after the wait
RecordAfterWait ==
    IF path = "docker"
    THEN Record(Art.imageName, storedRef)
    ELSE UNCHANGED <<built, builtImages>>

\* a wait whose timeout error is returned to the caller of RunE
WaitTimedOutFatal == Abort("wait") /\ UNCHANGED <<built, builtImages, ai>>

\* lines 856-859, 1014-1019, 1052-1054: the error of waitForImage is printed
\* as a warning and the loop goes on
WaitTimedOut == RecordAfterWait /\ NextArtifact

\* One remoteHead of the wait.  A Head that succeeds ends the wait; a failed
\* Head of the ticker loop ends it with the timeout error once the timeout has
\* elapsed, and the caller only prints a warning.
PropagationHead ==
    /\ pc = "wait"
    /\ \/ /\ Stored(registry, WaitTag)
          /\ RecordAfterWait
          /\ NextArtifact
          /\ UNCHANGED polls
       \/ /\ polls + 1 < MaxPolls
          /\ polls' = polls + 1
          /\ Proceed("wait")
          /\ UNCHANGED <<built, builtImages, ai>>
       \/ /\ polls >= 1
          /\ polls' = polls + 1
          /\ WaitTimedOut
    /\ UNCHANGED <<fixedVars, artVars, registry, events, nextDigest, pi>>

(* ---------------------------------------------------------------------- *)
(* RunE, lines 1021-1056: delegation of one artifact to the runner         *)
(* ---------------------------------------------------------------------- *)
Delegate ==
    /\ pc = "delegate"
    /\ \/ \E withDigest \in BOOLEAN :
          LET tag == RunnerTag(Art, withDigest, Hex(nextDigest)) IN
          /\ events' = Append(events, [Ev("skaffold", tag) EXCEPT !.out = tag, !.env = Environ])
          /\ registry' = Push(registry, tag, ImageOf(Hex(nextDigest), HostPlatform))
          /\ nextDigest' = nextDigest + 1
          /\ storedRef' = tag
          /\ Record(Art.imageName, tag)
          /\ Proceed("wait")
       \/ /\ Abort("skaffold")
          /\ events' = Append(events, [Ev("skaffold", <<>>) EXCEPT !.env = Environ, !.ok = FALSE])
          /\ UNCHANGED <<registry, nextDigest, storedRef, built, builtImages>>
    /\ UNCHANGED <<fixedVars, path, fullTag, runImage, platformManifests, index, polls, ai, pi>>

(* ---------------------------------------------------------------------- *)
(* The build command                                                       *)
(* ---------------------------------------------------------------------- *)
Next ==
    \/ Sanitize
    \/ Configure
    \/ BeginArtifact
    \/ ChartBuild
    \/ PackDispatch
    \/ DockerDispatch
    \/ AssembleGet
    \/ WriteIndex
    \/ HeadDigest
    \/ VersionRetag
    \/ PropagationHead
    \/ Delegate
    \/ NoPushBuild
    \/ WriteCreate
    \/ WriteEncode

Spec == Init /\ [][Next]_vars

(* ---------------------------------------------------------------------- *)
(* The sanitation alone, over a wider set of environments                  *)
(* ---------------------------------------------------------------------- *)
V1Twice == <<"v1", "_linux_", "x", "_linux_", "arm64">>
OnlySuffix == <<"_linux_", "arm64">>
VersionValues == {<<>>, V2, V1Arm, V1Twice, OnlySuffix}

SanitizeEnvs == {e \in [EnvKeys -> VersionValues] :
                    e["OTHER"] \in {<<>>, V1Arm} /\ e[Attest] = <<>>}

SanitizeCfg == [artifacts |-> <<>>, platforms |-> <<>>, repo |-> GhcrRepo, ttlUUID |-> <<>>,
                ttlTag |-> <<>>, push |-> TRUE, onlyArtifact |-> <<>>, insecure |-> <<>>,
                caPath |-> <<>>, priorFile |-> NoFile]

\* the loop of lines 404-422 run again on the environment it left behind
Resanitize ==
    /\ pc = "configure"
    /\ env' = CleanEnv(env).env
    /\ targetVersion' = CleanEnv(env).targetVersion
    /\ pc' = "resanitized"
    /\ UNCHANGED <<inputVars, optVars, artVars, outVars, ai, pi, polls, result, failedOp>>

InitEnv == InitWith({SanitizeCfg}, SanitizeEnvs)
NextEnv == Sanitize \/ Resanitize
SpecEnv == InitEnv /\ [][NextEnv]_vars

(* ---------------------------------------------------------------------- *)
(* The build command over a wider set of options: single-artifact filter,  *)
(* insecure registries, CA certificate, ttl tag, a repository with a       *)
(* trailing slash, a container-build artifact named like a chart           *)
(* ---------------------------------------------------------------------- *)
XChart == [imageName |-> <<"x", "-", "chart">>, kind |-> "docker", runImage |-> <<>>, env |-> <<>>]

OptArtifactLists == {l \in SeqsUpTo(ArtifactPool \cup {XChart}, MaxArtifacts) :
                       \A i, j \in DOMAIN l : i # j => l[i].imageName # l[j].imageName}

OptPlatformLists == {<<>>, << <<>> >>, <<Amd64>>, <<Amd64, Arm64>>}

CaPath == <<"/certs/ca.crt">>
TtlTag2h == <<"2h">>
AppName == <<"app">>
NoSuchName == <<"none">>

\* the number of options of c that differ from their default
OptionsSet(c) ==
    Cardinality({o \in {"onlyArtifact", "insecure", "caPath", "ttlUUID"} : c[o] # <<>>})

OptCfgs ==
    {c \in [artifacts : OptArtifactLists, platforms : OptPlatformLists,
            repo : {LocalRepo, SlashRepo}, ttlUUID : {<<>>, TtlUUID}, ttlTag : {<<>>, TtlTag2h},
            push : BOOLEAN, onlyArtifact : {<<>>, AppName, NoSuchName},
            insecure : {<<>>, <<LocalRepo>>}, caPath : {<<>>, CaPath},
            priorFile : {NoFile}] :
        /\ OptionsSet(c) <= 1
        /\ c.ttlUUID # <<>> => c.repo = LocalRepo
        /\ c.ttlTag # <<>> => c.ttlUUID # <<>>
        /\ ~c.push => (c.platforms = <<>> /\ c.ttlUUID = <<>> /\ c.insecure = <<>>
                        /\ c.caPath = <<>> /\ c.repo = LocalRepo)}

OptEnvs == {NoEnv, [NoEnv EXCEPT ![DMOV] = V1Arm]}

InitOpts == InitWith(OptCfgs, OptEnvs)
SpecOpts == InitOpts /\ [][Next]_vars

(* ---------------------------------------------------------------------- *)
(* The build command in environments that set the attestation variable     *)
(* ---------------------------------------------------------------------- *)
AttestEnvs == {NoEnv,
               [NoEnv EXCEPT ![Attest] = <<"0">>],
               [NoEnv EXCEPT ![Attest] = <<"0">>, ![DMOV] = V1],
               [NoEnv EXCEPT ![Attest] = <<"1">>]}

AttestCfgs ==
    {c \in [artifacts : ArtifactLists, platforms : {<<>>, <<Amd64>>, <<Amd64, Arm64>>},
            repo : {GhcrRepo}, ttlUUID : {<<>>, TtlUUID}, ttlTag : {<<>>}, push : BOOLEAN,
            onlyArtifact : {<<>>}, insecure : {<<>>}, caPath : {<<>>},
            priorFile : {NoFile}] :
        ~c.push => (c.platforms = <<>> /\ c.ttlUUID = <<>>)}

InitAttest == InitWith(AttestCfgs, AttestEnvs)
SpecAttest == InitAttest /\ [][Next]_vars

(* ---------------------------------------------------------------------- *)
(* The build command with insecure registries configured                   *)
(* ---------------------------------------------------------------------- *)
\* a registry whose host starts with the characters of localhost:5001
LookalikeRepo == <<"localhost:5001", "0">>

\* lines 1219-1228: strings.Split of "localhost:5001" and of "localhost:5001,",
\* which keeps the empty item after the trailing comma
InsecureLists == {<<>>, <<LocalRepo>>, <<LocalRepo, <<>>>>}

InsecureCfgs ==
    {c \in [artifacts : ArtifactLists, platforms : {<<>>, <<Amd64, Arm64>>},
            repo : {LocalRepo, LookalikeRepo, GhcrRepo}, ttlUUID : {<<>>}, ttlTag : {<<>>},
            push : BOOLEAN, onlyArtifact : {<<>>}, insecure : InsecureLists,
            caPath : {<<>>}, priorFile : {NoFile}] :
        ~c.push => (c.platforms = <<>> /\ c.insecure = <<>>)}

InsecureEnvs == {NoEnv, [NoEnv EXCEPT ![DMOV] = V1]}

InitInsecure == InitWith(InsecureCfgs, InsecureEnvs)
SpecInsecure == InitInsecure /\ [][Next]_vars

(* ---------------------------------------------------------------------- *)
(* The build command over descriptors whose run-image edges form a cycle   *)
(* or whose artifacts share an image name                                  *)
(* ---------------------------------------------------------------------- *)
SelfRef == [imageName |-> <<"self">>, kind |-> "buildpack", runImage |-> <<"self">>, env |-> <<>>]
Ping == [imageName |-> <<"ping">>, kind |-> "buildpack", runImage |-> <<"pong">>, env |-> <<>>]
Pong == [imageName |-> <<"pong">>, kind |-> "buildpack", runImage |-> <<"ping">>, env |-> <<>>]
Twin == [imageName |-> <<"app">>, kind |-> "docker", runImage |-> <<>>, env |-> <<>>]

GraphArtifactLists == SeqsUpTo({SelfRef, Ping, Pong, App, Twin, XApp, Chart}, MaxArtifacts)

GraphCfgs ==
    {c \in [artifacts : GraphArtifactLists, platforms : {<<>>, <<Amd64, Arm64>>},
            repo : {GhcrRepo}, ttlUUID : {<<>>}, ttlTag : {<<>>}, push : BOOLEAN,
            onlyArtifact : {<<>>}, insecure : {<<>>}, caPath : {<<>>},
            priorFile : {NoFile}] :
        ~c.push => c.platforms = <<>>}

InitGraph == InitWith(GraphCfgs, OptEnvs)
SpecGraph == InitGraph /\ [][Next]_vars

(* ---------------------------------------------------------------------- *)
(* The contract writer followed by the reader, over lists of entries whose  *)
(* names and tags hold characters that JSON escapes                         *)
(* ---------------------------------------------------------------------- *)
MaxEntries == 2

PinnedTag == <<"ghcr.io", "/", "dev", "/", "app", ":", "v1", "@", "sha256", ":", "abc">>

EntryNames == {<<"app">>, <<"base">>, <<"a", Quote, "b">>}
EntryTags == {PinnedTag, <<Backslash, "n", "<">>, <<"\n", ",", "}">>, <<>>}

Contracts == SeqsUpTo([imageName : EntryNames, tag : EntryTags], MaxEntries) \ {<<>>}

InitContract == InitAt({SanitizeCfg, [SanitizeCfg EXCEPT !.priorFile = OldFile]}, {NoEnv},
                       "write", Contracts, {{}})

\* res, err := util.ReadBuildResult(dir) once the writer has returned
ReadBack ==
    /\ pc = "done"
    /\ LET res == ReadBuildResult(file) IN
       events' = Append(events, [Ev("read", <<>>) EXCEPT !.out = res.builds, !.ok = res.err = ""])
    /\ pc' = "read"
    /\ UNCHANGED <<inputVars, envVars, optVars, artVars, built, builtImages, registry, file,
                   nextDigest, ai, pi, polls, result, failedOp>>

NextContract == WriteCreate \/ WriteEncode \/ ReadBack
SpecContract == InitContract /\ [][NextContract]_vars

(* ---------------------------------------------------------------------- *)
(* The contract's consumers: util.SelectTag, promote-image and              *)
(* watch-deployment                                                         *)
(* ---------------------------------------------------------------------- *)
\* strings.Contains(s, sub)
ContainsStr(s, sub) == \E i \in 0..(Len(s) - Len(sub)) : SubSeq(s, i + 1, i + Len(sub)) = sub

\* a lookup that returns the last entry of that name
GetLastTagForImage(builds, imageName) ==
    LET at == {i \in DOMAIN builds : builds[i].imageName = imageName} IN
    IF at = {} THEN [err |-> "not found", tag |-> <<>>,
                     names |-> [i \in DOMAIN builds |-> builds[i].imageName]]
    ELSE [err |-> "", tag |-> builds[CHOOSE i \in at : \A j \in at : j <= i].tag, names |-> <<>>]

\* util.GetTagForImage: the first entry of that name, or an error with all names
GetTagForImage(builds, imageName) ==
    LET at == {i \in DOMAIN builds : builds[i].imageName = imageName} IN
    IF at = {} THEN [err |-> "not found", tag |-> <<>>,
                     names |-> [i \in DOMAIN builds |-> builds[i].imageName]]
    ELSE [err |-> "", tag |-> builds[CHOOSE i \in at : \A j \in at : i <= j].tag, names |-> <<>>]

\* util.SelectTag
SelectTag(builds, imageName) ==
    IF imageName # <<>> THEN GetTagForImage(builds, imageName)
    ELSE IF Len(builds) = 0 THEN [err |-> "no builds found", tag |-> <<>>, names |-> <<>>]
    ELSE [err |-> "", tag |-> builds[Len(builds)].tag, names |-> <<>>]

\* a version that is the whole reference
WholeRef(fullRef) == fullRef

\* extractVersionTag
extractVersionTag(fullRef) ==
    LET ref == IF Contains(fullRef, "@") THEN SubSeq(fullRef, 1, Index(fullRef, "@") - 1)
               ELSE fullRef
    IN  IF Contains(ref, ":") THEN SubSeq(ref, LastIndex(ref, ":") + 1, Len(ref))
        ELSE fullRef

\* a destination that keeps the reference as it is
KeepRef(fullRef, srcRepo, destRepo) == fullRef

\* promote, lines 55-60: imageRelPath and destRef
DestRef(fullRef, srcRepo, destRepo) ==
    LET imageRelPath == IF HasPrefix(fullRef, srcRepo \o <<"/">>)
                        THEN SubSeq(fullRef, Len(srcRepo) + 2, Len(fullRef))
                        ELSE fullRef
    IN  TrimSuffix(destRepo, <<"/">>) \o <<"/">> \o imageRelPath

\* repositories as GetPromoteRepositories / GetWatchDestinationRepository
\* resolve them from the environment; empty when nothing is configured
DevRepo == <<"ghcr.io", "/", "dev">>
DevRepoSlash == <<"ghcr.io", "/", "dev", "/">>
PpRepo == <<"eu.gcr.io", "/", "project", "/", "pp">>
PpRepoSlash == <<"eu.gcr.io", "/", "project", "/", "pp", "/">>

BaseRef == <<"ghcr.io", "/", "dev", "/", "base", ":", "v1", "@", "sha256", ":", "aaa">>
AppRef == PinnedTag
AppRefNew == <<"ghcr.io", "/", "dev", "/", "app", ":", "v2", "@", "sha256", ":", "bbb">>
TtlRef == <<"ttl.sh", "/", "uuid", "-", "app", ":", "1h", "@", "sha256", ":", "abc">>

\* contracts on disk: base before app, one entry on the ephemeral registry,
\* two entries of one name
BaseAppContract == <<[imageName |-> <<"base">>, tag |-> BaseRef], [imageName |-> <<"app">>, tag |-> AppRef]>>
TtlContract == <<[imageName |-> <<"app">>, tag |-> TtlRef]>>
TwiceContract == <<[imageName |-> <<"app">>, tag |-> AppRef], [imageName |-> <<"app">>, tag |-> AppRefNew]>>

FileOf(builds) == [state |-> "complete", builds |-> builds]

\* a file cut short, a file just created, and a contract with no entries
CutFile == [state |-> "cut", builds |-> BaseAppContract]
CreatedFile == [state |-> "empty", builds |-> <<>>]
NoBuildsFile == [state |-> "complete", builds |-> <<>>]

GoodFiles == {FileOf(BaseAppContract), FileOf(TtlContract), FileOf(TwiceContract)}
BadFiles == {NoFile, CutFile, CreatedFile, NoBuildsFile}

\* the registries hold what the contract names, or nothing
DigestOfRef(ref) == ref[Len(ref)]
Holding(builds) == {[key |-> RegistryKey(builds[i].tag),
                     val |-> ImageOf(DigestOfRef(builds[i].tag), Amd64)] : i \in DOMAIN builds}

ImageNameFlags == {<<>>, <<"app">>, <<"base">>, <<"none">>}

PromoteCfgs ==
    [command : {"promote"}, run : {1}, srcRepo : {<<>>, DevRepo, DevRepoSlash},
     destRepo : {<<>>, PpRepo, PpRepoSlash}, imageName : ImageNameFlags,
     component : {<<"web">>}, priorFile : GoodFiles \cup BadFiles]

WatchCfgs ==
    [command : {"watch"}, run : {1}, srcRepo : {<<>>}, destRepo : {<<>>, PpRepo},
     imageName : ImageNameFlags, component : {<<"web">>},
     priorFile : {FileOf(BaseAppContract), FileOf(TwiceContract)} \cup BadFiles]

MaxTicks == 1

InitTools ==
    /\ InitAt(PromoteCfgs \cup WatchCfgs, {NoEnv}, "resolve", {<<>>},
              {{}} \cup {Holding(f.builds) : f \in GoodFiles})
    /\ registry # {} => registry = Holding(cfg.priorFile.builds)

toolIdle == <<ambient, envVars, optVars, path, fullTag, runImage, platformManifests, index,
              built, builtImages, nextDigest, ai, pi, file>>

\* promote lines 34-37, watch lines 53-56
ResolveRepositories ==
    /\ pc = "resolve"
    /\ IF cfg.destRepo = <<>> \/ (cfg.command = "promote" /\ cfg.srcRepo = <<>>)
       THEN Abort("repositories")
       ELSE Proceed("read")
    /\ UNCHANGED <<toolIdle, cfg, storedRef, polls, registry, events>>

\* promote lines 39-48, watch lines 58-66: read the contract, select the reference
ReadAndSelect ==
    /\ pc = "read"
    /\ LET res == ReadBuildResult(file)
           sel == SelectTag(res.builds, cfg.imageName)
       IN  IF res.err # "" THEN Abort("read") /\ UNCHANGED storedRef
           ELSE IF sel.err # "" THEN Abort("select") /\ UNCHANGED storedRef
           ELSE /\ storedRef' = sel.tag
                /\ Proceed(IF cfg.command = "promote" THEN "copy" ELSE "reconcile")
    /\ UNCHANGED <<toolIdle, cfg, polls, registry, events>>

\* promote lines 55-69: craneCopy(srcRef, destRef), a content-preserving copy
PromoteCopy ==
    /\ pc = "copy"
    /\ LET srcRef == storedRef
           destRef == DestRef(storedRef, cfg.srcRepo, cfg.destRepo)
       IN  \/ /\ Stored(registry, srcRef)
              /\ registry' = Push(registry, destRef, Resolve(registry, srcRef))
              /\ events' = Append(events, [Ev("copy", srcRef) EXCEPT !.out = destRef])
              /\ pc' = "done"
              /\ result' = "ok"
              /\ UNCHANGED failedOp
           \/ /\ events' = Append(events, [Ev("copy", srcRef) EXCEPT !.out = destRef, !.ok = FALSE])
              /\ Abort("copy")
              /\ UNCHANGED registry
    /\ UNCHANGED <<toolIdle, cfg, storedRef, polls>>

\* promote-image run again with source and destination exchanged
PromoteBack ==
    /\ pc = "done"
    /\ cfg.command = "promote"
    /\ cfg.run = 1
    /\ cfg' = [cfg EXCEPT !.run = 2, !.srcRepo = cfg.destRepo, !.destRepo = cfg.srcRepo]
    /\ pc' = "resolve"
    /\ result' = "running"
    /\ UNCHANGED <<toolIdle, storedRef, polls, registry, events, failedOp>>

\* watch line 82: flux reconcile, its outcome dropped
WatchReconcile ==
    /\ pc = "reconcile"
    /\ \E ok \in BOOLEAN :
          events' = Append(events, [Ev("reconcile", cfg.component) EXCEPT !.ok = ok])
    /\ Proceed("query")
    /\ UNCHANGED <<toolIdle, cfg, storedRef, polls, registry>>

\* what kubectl prints for the deployment's first container
ImageOld == <<"eu.gcr.io", "/", "project", "/", "pp", "/", "app", ":", "v0">>
ImageV10 == <<"eu.gcr.io", "/", "project", "/", "pp", "/", "app", ":", "v1", "0">>
QueryOutputs == {<<>>, ImageOld, ImageV10}

\* a test for the full reference alone
MatchesFullRefOnly(currentImage, ok) ==
    ok /\ currentImage # <<>> /\ ContainsStr(currentImage, storedRef)

\* a test that takes the output of a failed query as well
MatchesAnyOutcome(currentImage, ok) ==
    \/ ContainsStr(currentImage, extractVersionTag(storedRef))
    \/ ContainsStr(currentImage, storedRef)

\* a test that takes any image the query returns
MatchesAnyImage(currentImage, ok) == ok /\ currentImage # <<>>

\* watch line 85-86
Matches(currentImage, ok) ==
    /\ ok
    /\ currentImage # <<>>
    /\ \/ ContainsStr(currentImage, extractVersionTag(storedRef))
       \/ ContainsStr(currentImage, storedRef)

\* watch lines 84-96: the image query and what follows from it
WatchQuery ==
    /\ pc = "query"
    /\ \E currentImage \in QueryOutputs, ok \in BOOLEAN :
          /\ events' = Append(events, [Ev("query", cfg.component) EXCEPT
                                          !.out = currentImage, !.ok = ok])
          /\ Proceed(IF Matches(currentImage, ok) THEN "rollout" ELSE "select")
    /\ UNCHANGED <<toolIdle, cfg, storedRef, polls, registry>>

\* watch lines 89-94: kubectl rollout status
WatchRollout ==
    /\ pc = "rollout"
    /\ \/ /\ events' = Append(events, Ev("rollout", cfg.component))
          /\ pc' = "done"
          /\ result' = "ok"
          /\ UNCHANGED failedOp
       \/ /\ events' = Append(events, [Ev("rollout", cfg.component) EXCEPT !.ok = FALSE])
          /\ Abort("rollout")
    /\ UNCHANGED <<toolIdle, cfg, storedRef, polls, registry>>

\* watch lines 98-103, `case <-ticker.C`: the next poll; the context expires
\* after MaxTicks ticks at the latest
WatchTick ==
    /\ pc = "select"
    /\ polls < MaxTicks
    /\ polls' = polls + 1
    /\ Proceed("reconcile")
    /\ UNCHANGED <<toolIdle, cfg, storedRef, registry, events>>

\* the error of lines 100-101: the deployment and the tag waited for
TimedOutError == [component |-> cfg.component, tag |-> extractVersionTag(storedRef)]

\* watch lines 98-101, `case <-ctx.Done()`
WatchTimeout ==
    /\ pc = "select"
    /\ Abort("timeout")
    /\ UNCHANGED <<toolIdle, cfg, storedRef, polls, registry, events>>

NextTools ==
    \/ ResolveRepositories
    \/ ReadAndSelect
    \/ PromoteCopy
    \/ PromoteBack
    \/ WatchReconcile
    \/ WatchQuery
    \/ WatchRollout
    \/ WatchTick
    \/ WatchTimeout

SpecTools == InitTools /\ [][NextTools]_vars

\* The poll loop of watch under fair scheduling: the flux and kubectl
\* subprocesses return, and the `select` of lines 98-103 is left through the
\* ticker or through the context's deadline, which passes at the latest after
\* MaxTicks ticks.
FairTools ==
    /\ WF_vars(WatchReconcile)
    /\ WF_vars(WatchQuery)
    /\ WF_vars(WatchRollout)
    /\ WF_vars(WatchTick \/ WatchTimeout)

SpecToolsFair == SpecTools /\ FairTools

\* watch-deployment on contracts whose one entry carries any short reference:
\* with or without a tag, with or without a digest
MaxRefLen == 3
RefAtoms == {"app", ":", "@", "v1"}
RefPool == SeqsUpTo(RefAtoms, MaxRefLen)

RefCfgs ==
    [command : {"watch"}, run : {1}, srcRepo : {<<>>}, destRepo : {PpRepo},
     imageName : {<<>>}, component : {<<"web">>},
     priorFile : {FileOf(<<[imageName |-> <<"app">>, tag |-> r]>>) : r \in RefPool}]

InitRefs == InitAt(RefCfgs, {NoEnv}, "resolve", {<<>>}, {{}})

NextWatch ==
    \/ ResolveRepositories
    \/ ReadAndSelect
    \/ WatchReconcile
    \/ WatchQuery
    \/ WatchRollout
    \/ WatchTick
    \/ WatchTimeout

SpecRefs == InitRefs /\ [][NextWatch]_vars

\* The poll loop when a subprocess may never return. exec.Command(...).Run()
\* and .Output() (lines 21, 25-29) are started without the context of line 75,
\* so nothing ends them when its deadline passes; RunE is then blocked inside
\* the call and never reaches the `select` of lines 98-103.
WatchReconcileBlocks ==
    /\ pc = "reconcile"
    /\ pc' = "blocked"
    /\ UNCHANGED <<toolIdle, cfg, storedRef, polls, registry, events, result, failedOp>>

WatchQueryBlocks ==
    /\ pc = "query"
    /\ pc' = "blocked"
    /\ UNCHANGED <<toolIdle, cfg, storedRef, polls, registry, events, result, failedOp>>

InitWatch ==
    InitAt(WatchCfgs, {NoEnv}, "resolve", {<<>>}, {{}})

NextBlocking ==
    \/ NextWatch
    \/ WatchReconcileBlocks
    \/ WatchQueryBlocks

\* every call that returns does so in time, and the deadline passes
SpecBlocking == InitWatch /\ [][NextBlocking]_vars /\ FairTools

(* ====================================================================== *)
(* Properties                                                              *)
(* ====================================================================== *)
Succeeded == pc = "done" /\ result = "ok"

ArtifactNamed(name) ==
    artifactsToRun[CHOOSE k \in DOMAIN artifactsToRun : artifactsToRun[k].imageName = name]

AtCount(t) == Cardinality({i \in DOMAIN t : t[i] = "@"})

HexAtoms == {Hex(n) : n \in 0..nextDigest}

\* <registry>/<path>:<tag>@sha256:<hex>
PinnedRegistryRef(t) ==
    /\ AtCount(t) = 1
    /\ Len(t) >= 8
    /\ SubSeq(t, Len(t) - 3, Len(t) - 1) = <<"@", "sha256", ":">>
    /\ t[Len(t)] \in HexAtoms
    /\ t[Len(t) - 5] = ":"
    /\ \E i \in 2..(Len(t) - 7) : t[i] = "/"

IsDispatch(e) == e.op \in {"dispatch", "docker", "skaffold"}

\* C1: in a push-enabled run, every backend dispatch for a buildpack artifact
\* whose run_image names another artifact built in the run carries that
\* artifact's stored reference, the string recorded for it in the contract,
\* whatever the declared order of the two.  (The dispatch-local spelling of
\* localhost:5001 as 127.0.0.1:5001 is not counted as a difference.)
C1_RunImageIsStoredReference ==
    (Succeeded /\ cfg.push) =>
        \A i \in DOMAIN events : \A j \in DOMAIN built :
            (/\ events[i].op = "dispatch"
             /\ artifactsToRun[events[i].ai].runImage = built[j].imageName)
            => ReplaceAll(events[i].runImage, "127.0.0.1:5001", "localhost:5001") = built[j].tag

ArtifactStepOps == {"dispatch", "docker", "skaffold", "get", "writeIndex", "head", "retag"}

\* C3 (as stated): if any step of any artifact returns an error - a Head of the
\* propagation wait included - the command returns an error and
\* build_result.json is left as it was.
C3_AnyStepErrorFails ==
    (failedOp \in ArtifactStepOps \/ polls > 0) =>
        /\ pc \in {"done", "failed"} => result = "error"
        /\ file = cfg.priorFile

\* C3 (amended): if any step of any artifact other than a Head of the
\* propagation wait returns an error, the command returns an error and
\* build_result.json is left as it was.
C3_FatalStepErrorFails ==
    failedOp \in ArtifactStepOps =>
        /\ pc = "failed"
        /\ result = "error"
        /\ file = cfg.priorFile

C3_Witness ==
    /\ failedOp = "retag" /\ result = "error"
    /\ ai = 2 /\ Len(built) >= 1
    /\ cfg.priorFile = OldFile /\ file = OldFile

\* C4: build_result.json is at every instant either as it was before the run
\* or the complete contract of the run.
C4_AtomicWrite ==
    \/ file = cfg.priorFile
    \/ file.state = "complete" /\ file.builds = built

\* C5: in a successful push-enabled run the contract is in completion order and
\* every artifact whose run_image names another artifact comes after it.
C5_ContractOrderTopological ==
    (Succeeded /\ cfg.push /\ Len(built) > 0) =>
        /\ file.builds = built
        /\ \A i, j \in DOMAIN built :
             ArtifactNamed(built[i].imageName).runImage = built[j].imageName => j < i

\* the platforms artifact k fans out over, and whether its FullTag is published
\* by a manifest-list write
TargetsOf(k) == IF PathOf(artifactsToRun[k]) = "pack" THEN TargetPlatforms ELSE platforms
Assembled(k) == PathOf(artifactsToRun[k]) = "docker" \/ Len(TargetPlatforms) > 1

\* event e completes the publish of artifact k's FullTag
Publishes(e, k) ==
    /\ e.ai = k
    /\ e.ok
    /\ IF Assembled(k)
       THEN e.op = "writeIndex" /\ e.tag = FullTagOf(artifactsToRun[k])
       ELSE e.op = "dispatch" /\ e.publish
            /\ RegistryKey(e.tag) = RegistryKey(FullTagOf(artifactsToRun[k]))

DispatchesBefore(i) ==
    Cardinality({j \in 1..(i-1) : IsDispatch(events[j]) /\ events[j].ai = events[i].ai})

\* C6: on the push path every write of an artifact's version tag comes after
\* the publish of its FullTag has completed and before the first dispatch of a
\* later artifact; artifacts are processed one after the other, and each
\* artifact's platforms one after the other, in the requested order, before
\* any registry step of that artifact.
C6_RetagAfterPublishBeforeNext ==
    cfg.push =>
        /\ \A i \in DOMAIN events :
             events[i].op = "retag" =>
                /\ \E j \in 1..(i-1) : Publishes(events[j], events[i].ai)
                /\ \A j \in DOMAIN events :
                     (IsDispatch(events[j]) /\ events[j].ai > events[i].ai) => j > i
        /\ \A j \in DOMAIN events : \A i \in 1..(j-1) : events[i].ai <= events[j].ai
        /\ \A j \in DOMAIN events :
             IsDispatch(events[j]) =>
                \A i \in 1..(j-1) : events[i].ai = events[j].ai => IsDispatch(events[i])
        /\ \A i \in DOMAIN events :
             events[i].op \in {"dispatch", "docker"} /\ PathOf(artifactsToRun[events[i].ai]) # "chart"
             => LET n == DispatchesBefore(i)
                    targets == TargetsOf(events[i].ai)
                IN  /\ n < Len(targets)
                    /\ events[i].platform = targets[n + 1]

C6_Witness ==
    /\ cfg.push
    /\ Len(platforms) > 1
    /\ \E i, j \in DOMAIN events :
         /\ i < j
         /\ events[i].op = "retag" /\ events[i].ok /\ events[i].ai = 1
         /\ IsDispatch(events[j]) /\ events[j].ai = 2

\* the first non-empty cleaned value of the scanned variables, in their order
FirstClean(e) ==
    LET cleaned(i) == SplitHead(e[cleanEnvVars[i]], LinuxSep)
        found == {i \in DOMAIN cleanEnvVars : cleaned(i) # <<>>}
    IN  IF found = {} THEN <<>>
        ELSE cleaned(CHOOSE i \in found : \A j \in found : i <= j)

\* C7: the canonical version is the first non-empty cleaned value of the
\* scanned variables; every non-chart artifact of the push path is re-tagged
\* if and only if a canonical version was captured, and the tag written is
\* FullTag with its trailing "latest" replaced by that version.
C7_RetagIffCanonicalVersion ==
    (Succeeded /\ cfg.push) =>
        /\ targetVersion = FirstClean(ambient)
        /\ \A k \in DOMAIN artifactsToRun :
             PathOf(artifactsToRun[k]) # "chart" =>
                /\ (targetVersion # <<>>) <=>
                     (\E i \in DOMAIN events : events[i].op = "retag" /\ events[i].ai = k)
                /\ \A i \in DOMAIN events :
                     (events[i].op = "retag" /\ events[i].ai = k) =>
                        events[i].tag = VersionTag(FullTagOf(artifactsToRun[k]), targetVersion)

\* C8: after a successful run the registry resolves the version tag written
\* for an artifact and the artifact's FullTag to the same digest, the one
\* recorded in the artifact's contract entry; a run whose re-tag failed does not
\* end successfully.
C8_VersionTagSameDigest ==
    /\ (\E i \in DOMAIN events : events[i].op = "retag" /\ ~events[i].ok) => result # "ok"
    /\ (Succeeded /\ cfg.push) =>
         \A i \in DOMAIN events :
            events[i].op = "retag" =>
               LET a == artifactsToRun[events[i].ai]
                   full == FullTagOf(a)
               IN  /\ Stored(registry, events[i].tag)
                   /\ Stored(registry, full)
                   /\ Resolve(registry, events[i].tag).digest = Resolve(registry, full).digest
                   /\ \E j \in DOMAIN built :
                        /\ built[j].imageName = a.imageName
                        /\ built[j].tag = full \o <<"@">> \o DigestString(Resolve(registry, full).digest)

\* the same, for runs in which no two artifacts share a FullTag
C8_DistinctFullTags ==
    (\A i, j \in DOMAIN artifactsToRun :
        i # j => FullTagOf(artifactsToRun[i]) # FullTagOf(artifactsToRun[j]))
    => C8_VersionTagSameDigest

\* C9: after the sanitation every scanned variable whose value contained
\* "_linux_" holds the part before it (a <base> with no platform suffix left
\* in it), every other variable is unchanged, and running the sanitation again
\* changes nothing.
C9_SanitationStripsSuffix ==
    pc \in {"configure", "resanitized"} =>
        /\ \A k \in Range(cleanEnvVars) :
             IF Contains(ambient[k], LinuxSep)
             THEN /\ ~Contains(env[k], LinuxSep)
                  /\ \E n \in 1..Len(ambient[k]) :
                        /\ ambient[k][n] = LinuxSep
                        /\ env[k] = SubSeq(ambient[k], 1, n - 1)
             ELSE env[k] = ambient[k]
        /\ \A k \in EnvKeys \ Range(cleanEnvVars) : env[k] = ambient[k]

C9_Witness ==
    /\ pc = "resanitized"
    /\ ambient[DMOV] = V1Arm /\ env[DMOV] = V1
    /\ ambient["TAG"] = V1Twice
    /\ ambient["VERSION"] = V2
    /\ Contains(ambient["OTHER"], LinuxSep)

\* C10: the manifest list written at the FullTag of an artifact built for more
\* than one platform has exactly one entry per requested non-empty platform,
\* each with that platform in its descriptor.
C10_OneEntryPerPlatform ==
    (cfg.push /\ pc \in {"retag", "wait"} /\ path \in {"pack", "docker"} /\ Len(platforms) > 1) =>
        LET ms == Resolve(registry, fullTag).manifests
            requested == {p \in Range(platforms) : p # <<>>}
        IN  /\ Resolve(registry, fullTag).kind = "index"
            /\ Len(ms) = Cardinality(requested)
            /\ {ms[i].platform : i \in DOMAIN ms} = requested

\* the same, for platform lists without an empty or a repeated entry
C10_DistinctPlatforms ==
    (/\ \A i \in DOMAIN platforms : platforms[i] # <<>>
     /\ \A i, j \in DOMAIN platforms : i # j => platforms[i] # platforms[j])
    => C10_OneEntryPerPlatform

\* the per-platform builds of artifact k among the first n calls
PlatformBuilds(k, n) ==
    {j \in 1..n : events[j].op \in {"dispatch", "docker"} /\ events[j].ai = k}

\* C11: a failed per-platform build is the last thing the run does for the
\* artifact (no further platform build, no manifest-list write), and a
\* manifest list is written only after one successful build per platform of
\* the artifact.
C11_FailedPlatformBuildStops ==
    cfg.push =>
        /\ \A i \in DOMAIN events :
             (events[i].op \in {"dispatch", "docker"} /\ ~events[i].ok) =>
                /\ i = Len(events)
                /\ pc = "failed" /\ result = "error"
        /\ \A i \in DOMAIN events :
             events[i].op = "writeIndex" =>
                LET builds == PlatformBuilds(events[i].ai, i) IN
                /\ Cardinality(builds) = Len(TargetsOf(events[i].ai))
                /\ \A j \in builds : events[j].ok

C11_Witness ==
    /\ cfg.push /\ pc = "failed"
    /\ Len(platforms) > 1
    /\ \E i \in DOMAIN events :
         /\ i > 1 /\ i = Len(events)
         /\ events[i].op \in {"dispatch", "docker"} /\ ~events[i].ok
         /\ events[i-1].op = events[i].op /\ events[i-1].ai = events[i].ai /\ events[i-1].ok
    /\ ~Stored(registry, fullTag)

\* C12: a propagation wait never fails the run.  A Head that succeeds ends the
\* wait at once; after a failed Head the wait either issues another Head or
\* ends with the timeout, and then the loop goes on to the next artifact with
\* the artifact's entry in the contract.
C12_WaitIsNotFatal ==
    [][pc = "wait" =>
         /\ pc' \in {"wait", "artifact"}
         /\ result' = result /\ failedOp' = failedOp
         /\ polls' = polls => pc' = "artifact"
         /\ pc' = "wait" => polls' = polls + 1
         /\ pc' = "artifact" =>
              /\ ai' = ai + 1
              /\ \E j \in DOMAIN built' : built'[j].imageName = Art.imageName]_vars

C12_Witness ==
    /\ Succeeded /\ cfg.push
    /\ polls = MaxPolls
    /\ Len(artifactsToRun) = 2 /\ Len(built) = 2
    /\ file.builds = built

ChartNamed(art) == HasSuffix(art.imageName, <<"-", "chart">>)

CallsFor(k) == {i \in DOMAIN events : events[i].ai = k}

\* t is s without its leading and trailing white space
IsTrimOf(t, s) ==
    /\ t # <<>> /\ t[1] \notin WhiteSpace /\ t[Len(t)] \notin WhiteSpace
    /\ \E a \in 0..Len(s) :
         /\ a + Len(t) <= Len(s)
         /\ SubSeq(s, a + 1, a + Len(t)) = t
         /\ \A j \in (1..a) \cup ((a + Len(t) + 1)..Len(s)) : s[j] \in WhiteSpace

\* what the run does for artifact k when it takes it for a chart; recorded(tag, out)
\* relates the tag it records to the content of the ref file
ChartHandling(k, recorded(_, _)) ==
    /\ Cardinality(CallsFor(k)) <= 1
    /\ ai = k => pc \in {"artifact", "chart", "failed"}
    /\ \A i \in CallsFor(k) :
         /\ events[i].op = "dispatch"
         /\ ~events[i].publish
         /\ events[i].platform = <<>>
         /\ events[i].ok =>
              /\ \E j \in DOMAIN built :
                   /\ built[j].imageName = artifactsToRun[k].imageName
                   /\ recorded(built[j].tag, events[i].out)
              /\ MapHas(builtImages, artifactsToRun[k].imageName)
              /\ recorded(MapGet(builtImages, artifactsToRun[k].imageName), events[i].out)

\* C13 (as stated): every artifact whose image name ends in "-chart" gets
\* exactly one dispatch, with publish=false and an empty platform, no
\* manifest-list write, Head, re-tag or wait, and the tag recorded for it in
\* the contract and in builtImages is exactly the content of the ref file.
C13_ChartNamedArtifact ==
    cfg.push =>
        \A k \in DOMAIN artifactsToRun :
            ChartNamed(artifactsToRun[k]) =>
                /\ ChartHandling(k, LAMBDA tag, out : tag = out)
                /\ k < ai => CallsFor(k) # {}

\* C13 (buildpack artifacts, trimmed ref): every buildpack artifact whose image
\* name ends in "-chart" gets exactly one dispatch, with publish=false and an
\* empty platform, no manifest-list write, Head, re-tag or wait, and the tag
\* recorded for it is the content of the ref file without its leading and
\* trailing white space.
C13_BuildpackChartArtifact ==
    cfg.push =>
        \A k \in DOMAIN artifactsToRun :
            (ChartNamed(artifactsToRun[k]) /\ artifactsToRun[k].kind = "buildpack") =>
                /\ ChartHandling(k, IsTrimOf)
                /\ k < ai => CallsFor(k) # {}

C13_Witness ==
    /\ Succeeded /\ cfg.push
    /\ Len(platforms) > 1
    /\ env[DMOV] # <<>>
    /\ \E i \in DOMAIN events :
         /\ events[i].op = "dispatch" /\ ~events[i].publish /\ events[i].ok
         /\ events[i].out # built[events[i].ai].tag
    /\ \E k \in DOMAIN artifactsToRun : artifactsToRun[k] = XChart

Loopback == "127.0.0.1:5001"
Localhost == "localhost:5001"

\* the per-platform tag of artifact k for platform p, from FullTag
ExpectedPlatformTag(k, p) ==
    LET full == FullTagOf(artifactsToRun[k])
    IN  IF Len(platforms) > 1 /\ p # <<>>
        THEN full \o <<"-">> \o ReplaceAll(p, "/", "-")
        ELSE full

\* the run image of artifact k after the lookup in builtImages: the stored
\* reference of an artifact built earlier in the run, or the declared value
ResolvedRunImage(k) ==
    LET r == artifactsToRun[k].runImage
        earlier == {j \in DOMAIN built :
                      /\ built[j].imageName = r
                      /\ \E m \in 1..(k-1) : artifactsToRun[m].imageName = r}
    IN  IF earlier # {} THEN built[CHOOSE j \in earlier : TRUE].tag ELSE r

PackDispatches == {i \in DOMAIN events : events[i].op = "dispatch" /\ events[i].publish}

\* C14: a per-platform pack dispatch whose tag or run image contains
\* localhost:5001 receives both with 127.0.0.1:5001 in its place and an
\* insecure-registry list that includes 127.0.0.1:5001; the tags of the
\* manifest assembly, the Head, the re-tag and the contract keep the localhost
\* form, and the configured insecure registries stay as they were.
C14_LocalhostRewriteConfined ==
    cfg.push =>
        /\ \A i \in PackDispatches :
             LET e == events[i]
                 tag == ExpectedPlatformTag(e.ai, e.platform)
                 run == ResolvedRunImage(e.ai)
             IN  /\ e.tag = ReplaceAll(tag, Localhost, Loopback)
                 /\ e.runImage = ReplaceAll(run, Localhost, Loopback)
                 /\ (Contains(tag, Localhost) \/ Contains(run, Localhost)) =>
                       /\ Localhost \notin Range(e.tag) \cup Range(e.runImage)
                       /\ <<Loopback>> \in Range(e.insecure)
                 /\ \A j \in DOMAIN cfg.insecure :
                       j <= Len(e.insecure) /\ e.insecure[j] = cfg.insecure[j]
        /\ \A i \in DOMAIN events :
             events[i].op \in {"get", "writeIndex", "head", "retag"} =>
                 /\ Loopback \notin Range(events[i].tag)
                 /\ events[i].op = "get" =>
                       \E q \in DOMAIN platforms :
                           events[i].tag = ExpectedPlatformTag(events[i].ai, platforms[q])
                 /\ events[i].op \in {"writeIndex", "head"} =>
                       events[i].tag = FullTagOf(artifactsToRun[events[i].ai])
        /\ \A j \in DOMAIN built : Loopback \notin Range(built[j].tag)
        /\ \A q \in DOMAIN platformManifests : Loopback \notin Range(platformManifests[q])
        /\ events # <<>> => insecureRegistries = cfg.insecure

C14_Witness ==
    /\ Succeeded /\ cfg.push
    /\ cfg.repo = LocalRepo /\ cfg.insecure = <<LocalRepo>>
    /\ Len(platforms) > 1
    /\ \E i \in PackDispatches :
         /\ Loopback \in Range(events[i].tag)
         /\ Loopback \in Range(events[i].runImage)
         /\ "@" \in Range(events[i].runImage)
         /\ events[i].insecure = <<LocalRepo, <<Loopback>>>>
    /\ \E i \in DOMAIN events : events[i].op = "writeIndex" /\ Localhost \in Range(events[i].tag)
    /\ \E j \in DOMAIN built : Localhost \in Range(built[j].tag)

\* C15: every per-platform pack dispatch of a non-chart buildpack artifact
\* carries an env map with the module-privacy key, every declared K=V pair (the
\* last declaration of a key wins, also over the base value), and SSL_CERT_FILE
\* set to the in-container certificate path when a CA path is configured.
C15_DispatchEnvComplete ==
    \A i \in PackDispatches :
        LET e == events[i]
            declared == artifactsToRun[e.ai].env
            pair(d) == SplitN2(declared[d])
        IN  /\ MapHas(e.env, GoPrivate.key)
            /\ \A d \in DOMAIN declared :
                 Len(pair(d)) = 2 =>
                    /\ MapHas(e.env, pair(d)[1])
                    /\ (\A d2 \in (d+1)..Len(declared) : pair(d2)[1] # pair(d)[1]) =>
                          MapGet(e.env, pair(d)[1]) = pair(d)[2]
            /\ cfg.caPath # <<>> =>
                 /\ MapHas(e.env, <<"SSL_CERT_FILE">>)
                 /\ MapGet(e.env, <<"SSL_CERT_FILE">>) = CertFile

\* the artifact at `ai` is being built by the engine itself, which derived
\* FullTag for it (buildpack, chart, fanned-out container build)
EngineBuilt ==
    /\ pc \in {"chart", "pack", "docker", "get", "writeIndex", "head", "retag", "wait"}
    /\ path \in {"chart", "pack", "docker"}

EphemeralTag(imageName) ==
    <<"ttl.sh", "/">> \o cfg.ttlUUID \o <<"-">> \o LastSegment(imageName, "-")
        \o <<":">> \o (IF cfg.ttlTag = <<>> THEN <<"1h">> ELSE cfg.ttlTag)

PerPlatformBuilds == {i \in DOMAIN events : /\ events[i].op \in {"dispatch", "docker"}
                                            /\ events[i].publish}

\* the tag a per-platform build pushes to, given the platform list `list`;
\* the name handed to the pack backend is this tag after the localhost rewrite
PushesTo(e, list) ==
    LET full == FullTagOf(artifactsToRun[e.ai])
        named(t) == IF e.op = "dispatch" THEN rewriteLocalhost(t).str ELSE t
    IN  /\ Len(list) <= 1 =>
             e.tag = named(full)
        /\ Len(list) > 1 /\ e.platform # <<>> =>
             e.tag = named(full \o <<"-">> \o ReplaceAll(e.platform, "/", "-"))

\* C17 as stated: every per-platform build pushes to FullTag when the
\* requested platform list is empty or has a single entry, and to FullTag-<platform
\* with '/' replaced by '-'> when more than one platform is requested and the
\* platform is non-empty; for buildpack and container-build artifacts alike.
C17_PerPlatformTagRequested ==
    \A i \in PerPlatformBuilds : PushesTo(events[i], cfg.platforms)

\* the platform list in effect: ephemeral-registry mode keeps the first requested
\* platform alone, linux/amd64 when none was requested
InEffect ==
    IF cfg.ttlUUID = <<>> THEN cfg.platforms
    ELSE IF cfg.platforms = <<>> THEN <<Amd64>> ELSE <<cfg.platforms[1]>>

\* C17 amended: the same rule, read over the platform list in effect.
C17_PerPlatformTagInEffect ==
    \A i \in PerPlatformBuilds : PushesTo(events[i], InEffect)

C17_Witness ==
    /\ cfg.ttlUUID # <<>>
    /\ cfg.platforms = <<Amd64, Arm64>>
    /\ \E i \in PerPlatformBuilds :
          /\ events[i].op = "docker"
          /\ events[i].ok
          /\ events[i].platform = Amd64
          /\ events[i].tag = FullTagOf(artifactsToRun[events[i].ai])

AtMostOneRequested == cfg.push /\ Len(cfg.platforms) <= 1

\* artifact k's published reference was computed from a Head on its FullTag
DigestFromHead(k) ==
    \A b \in Range(built) :
        b.imageName = artifactsToRun[k].imageName =>
            \E i \in DOMAIN events :
                /\ events[i].op = "head" /\ events[i].ok /\ events[i].ai = k
                /\ events[i].tag = FullTagOf(artifactsToRun[k])
                /\ b.tag = events[i].tag \o <<"@", "sha256", ":", events[i].digest>>

\* the only backend call for artifact k is the Build Backend Adapter's
Delegated(k) ==
    \A i \in DOMAIN events :
        events[i].ai = k /\ events[i].op \in {"dispatch", "docker", "skaffold"} =>
            events[i].op = "skaffold"

\* no manifest list is assembled (Get of a per-platform tag) or written for k
NoManifestList(k) ==
    \A i \in DOMAIN events : events[i].ai = k => events[i].op \notin {"get", "writeIndex"}

\* C18 as stated: with at most one requested platform on the push path no
\* manifest list is assembled or written for any artifact, whatever its kind and
\* registry mode; a directly pushed artifact's digest is the one a Head on its
\* FullTag returned; a single-platform container-build artifact is delegated.
C18_SinglePlatformNoManifestList ==
    AtMostOneRequested =>
        \A k \in DOMAIN artifactsToRun :
            /\ NoManifestList(k)
            /\ PathOf(artifactsToRun[k]) = "pack" => DigestFromHead(k)
            /\ artifactsToRun[k].kind = "docker" => Delegated(k)

\* C18 amended: the same, except that in ephemeral-registry mode a
\* container-build artifact is not delegated: the engine builds it for the one
\* platform in effect and publishes FullTag as a manifest list of that one entry.
C18_SinglePlatformExceptEphemeralContainerBuild ==
    AtMostOneRequested =>
        \A k \in DOMAIN artifactsToRun :
            LET art == artifactsToRun[k]
                full == FullTagOf(art)
            IN  IF art.kind = "docker" /\ cfg.ttlUUID # <<>>
                THEN /\ \A i \in DOMAIN events :
                          events[i].ai = k => events[i].op # "skaffold"
                     /\ \A op \in {"docker", "get", "writeIndex"} :
                          Cardinality({i \in DOMAIN events :
                                          events[i].ai = k /\ events[i].op = op}) <= 1
                     /\ \A i \in DOMAIN events :
                          events[i].ai = k /\ events[i].op \in {"docker", "get", "writeIndex"} =>
                             events[i].tag = full
                ELSE /\ NoManifestList(k)
                     /\ PathOf(art) = "pack" => DigestFromHead(k)
                     /\ art.kind = "docker" => Delegated(k)

C18_Witness ==
    /\ AtMostOneRequested
    /\ cfg.ttlUUID # <<>>
    /\ \E i \in DOMAIN events :
          /\ events[i].op = "writeIndex" /\ events[i].ok
          /\ artifactsToRun[events[i].ai].kind = "docker"
    /\ \E i \in DOMAIN events :
          /\ events[i].op = "head" /\ events[i].ok
          /\ \E b \in Range(built) : b.imageName = artifactsToRun[events[i].ai].imageName

\* C19: with push disabled the engine makes exactly one Build Backend Adapter
\* call, covering all selected artifacts, and nothing else: no pack dispatch, no
\* registry Head/Get/Write, no manifest list, no version re-tag, no propagation
\* wait; the contract written is the adapter's returned (image name, tag)
\* pairs in the order returned.
C19_NoPushDelegatesWholeBuild ==
    ~cfg.push =>
        /\ Len(events) <= 1
        /\ \A i \in DOMAIN events :
             /\ events[i].op = "skaffold"
             /\ events[i].ai = 0
             /\ Len(events[i].out) = Len(artifactsToRun)
             /\ \A k \in DOMAIN artifactsToRun :
                  events[i].out[k].imageName = artifactsToRun[k].imageName
        /\ registry = {}
        /\ polls = 0
        /\ pc \in {"write", "encode", "done"} => Len(events) = 1 /\ built = events[1].out
        /\ file.state = "complete" => Len(events) = 1 /\ file.builds = events[1].out

C19_Witness ==
    /\ ~cfg.push
    /\ pc = "done"
    /\ result = "ok"
    /\ file.state = "complete"
    /\ Len(file.builds) = 2
    /\ file.builds = events[1].out

Declared(name) == \E a \in Range(cfg.artifacts) : a.imageName = name

\* the run is past the artifact filter of lines 469-484
PastFilter == pc \notin {"sanitize", "configure"} /\ failedOp # "config"

\* C20: with the single-artifact filter set to N, if N is declared exactly one
\* artifact named N is built and no dispatch, registry write or contract entry
\* is made for any other artifact; if N is not declared the command fails,
\* listing the declared names, before any dispatch or registry write, and no
\* contract is written.
C20_SingleArtifactFilter ==
    (cfg.onlyArtifact # <<>> /\ PastFilter) =>
        IF Declared(cfg.onlyArtifact)
        THEN /\ Len(artifactsToRun) = 1
             /\ artifactsToRun[1].imageName = cfg.onlyArtifact
             /\ \A i \in DOMAIN events :
                  /\ events[i].ai \in {0, 1}
                  /\ events[i].ai = 0 =>
                       \A b \in Range(events[i].out) : b.imageName = cfg.onlyArtifact
             /\ \A r \in registry :
                  HasPrefix(r.key, RefBase(FullTagOf(artifactsToRun[1])))
             /\ \A b \in Range(built) \cup Range(file.builds) : b.imageName = cfg.onlyArtifact
             /\ (pc = "done" /\ result = "ok") => Len(built) = 1
        ELSE /\ pc = "failed" /\ result = "error" /\ failedOp = "artifact"
             /\ events = <<>> /\ registry = {} /\ built = <<>>
             /\ file = cfg.priorFile
             /\ NotFoundError.available = [i \in DOMAIN cfg.artifacts |-> cfg.artifacts[i].imageName]

C20_Witness ==
    /\ cfg.onlyArtifact = AppName
    /\ cfg.push
    /\ Len(cfg.artifacts) = 2
    /\ cfg.artifacts[2].imageName = AppName
    /\ pc = "done" /\ result = "ok"
    /\ file.state = "complete"
    /\ Len(file.builds) = 1
    /\ file.builds[1].imageName = AppName

\* artifact i's run image names artifact j of the descriptor
RunImageEdge(arts, i, j) == arts[i].runImage # <<>> /\ arts[i].runImage = arts[j].imageName

\* j is reached from i over at most n run-image edges (n >= 1)
RECURSIVE ReachedWithin(_, _, _, _)
ReachedWithin(arts, i, j, n) ==
    \/ RunImageEdge(arts, i, j)
    \/ /\ n > 1
       /\ \E k \in DOMAIN arts : RunImageEdge(arts, i, k) /\ ReachedWithin(arts, k, j, n - 1)

HasCycle(arts) == \E i \in DOMAIN arts : ReachedWithin(arts, i, i, Len(arts))

SharedName(arts) == \E i, j \in DOMAIN arts : i # j /\ arts[i].imageName = arts[j].imageName

\* C21: a descriptor whose run-image edges form a cycle (a self reference
\* included), or in which two artifacts share an image name, is rejected with
\* an error before any backend dispatch or registry write.
C21_CyclesAndSharedNamesRejected ==
    (HasCycle(cfg.artifacts) \/ SharedName(cfg.artifacts)) =>
        /\ events = <<>>
        /\ registry = {}
        /\ result # "ok"

\* C22: a run that builds zero artifacts returns success and neither creates
\* nor writes build_result.json.
C22_ZeroArtifactsNoFile ==
    /\ (built = <<>> /\ pc \in {"write", "encode", "done"}) =>
          /\ pc # "encode"
          /\ file = cfg.priorFile
          /\ pc = "done" => result = "ok"
    /\ (cfg.artifacts = <<>> /\ cfg.push /\ failedOp # "config") =>
          /\ pc # "failed"
          /\ events = <<>>

C22_Witness ==
    /\ cfg.artifacts = <<>>
    /\ cfg.push
    /\ cfg.priorFile = OldFile
    /\ pc = "done" /\ result = "ok"
    /\ built = <<>>
    /\ file = OldFile

PastSelect == /\ pc \notin {"resolve", "read"}
              /\ failedOp \notin {"repositories", "read"}

\* the error of the selector for the name asked for
SelectError == SelectTag(file.builds, cfg.imageName)

\* C24: on a non-empty contract, select with no name returns the last entry's
\* tag; with a name that appears it never errors and returns the tag of the
\* entry of exactly that name (the first one, should the name appear twice);
\* with a name that does not appear it returns an error that enumerates every
\* image name of the contract.
C24_SelectTotalOnDeclaredNames ==
    PastSelect =>
        LET builds == file.builds
            named == {i \in DOMAIN builds : builds[i].imageName = cfg.imageName}
        IN  /\ Len(builds) > 0
            /\ cfg.imageName = <<>> =>
                 /\ failedOp # "select"
                 /\ storedRef = builds[Len(builds)].tag
            /\ (cfg.imageName # <<>> /\ named # {}) =>
                 /\ failedOp # "select"
                 /\ \E i \in named : /\ storedRef = builds[i].tag
                                     /\ \A j \in named : i <= j
            /\ (cfg.imageName # <<>> /\ named = {}) =>
                 /\ pc = "failed" /\ failedOp = "select" /\ result = "error"
                 /\ SelectError.err # ""
                 /\ Len(SelectError.names) = Len(builds)
                 /\ \A i \in DOMAIN builds : SelectError.names[i] = builds[i].imageName
                 /\ events = <<>>

C24_Witness ==
    /\ cfg.imageName = <<"base">>
    /\ file = FileOf(BaseAppContract)
    /\ pc = "copy"
    /\ storedRef = BaseRef

\* the three ways the contract can be unusable
Missing == file.state = "absent"
Unparsable == file.state # "absent" /\ ~Unmarshal(Bytes(file)).ok
EmptyBuilds == /\ file.state # "absent"
               /\ Unmarshal(Bytes(file)).ok
               /\ Len(Unmarshal(Bytes(file)).builds) = 0

\* C25: when build_result.json is missing, unparsable, or has an empty builds
\* list, promote and watch end in the error of reading the contract (or, before
\* that, of unresolved repositories), and no registry copy, reconcile, image
\* query or rollout-status call is ever issued.
C25_UnusableContractIsFatal ==
    (Missing \/ Unparsable \/ EmptyBuilds) =>
        /\ events = <<>>
        /\ registry \in {{}, Holding(file.builds)}
        /\ storedRef = <<>>
        /\ pc \in {"resolve", "read", "failed"}
        /\ pc = "failed" => /\ result = "error"
                            /\ failedOp \in {"repositories", "read"}
        /\ (pc = "failed" /\ failedOp = "read") => ReadBuildResult(file).err # ""

C25_Witness ==
    /\ cfg.command = "watch"
    /\ EmptyBuilds
    /\ pc = "failed"
    /\ failedOp = "read"
    /\ result = "error"
    /\ events = <<>>

\* the copies promote has issued
Copies == {i \in DOMAIN events : events[i].op = "copy"}

\* the registry host of a reference, and its '<image>:<tag>@<digest>' remainder
RegistryHost(ref) == SubSeq(ref, 1, Index(ref, "/") - 1)
Remainder(ref) == SubSeq(ref, LastIndex(ref, "/") + 1, Len(ref))

\* C26: for the selected stored reference R, promote issues exactly one copy
\* whose source is R unchanged and whose destination is the destination
\* repository, a '/', and R without its source-registry prefix: the
\* '<image>:<tag>@<digest>' remainder is the same on both sides and the
\* destination does not retain the source registry.
C26_DestinationDropsSourcePrefix ==
    (cfg.command = "promote" /\ cfg.run = 1) =>
        /\ Cardinality(Copies) <= 1
        /\ pc = "done" => Cardinality(Copies) = 1
        /\ \A i \in Copies :
              /\ events[i].tag = storedRef
              /\ HasPrefix(events[i].out, TrimSuffix(cfg.destRepo, <<"/">>) \o <<"/">>)
              /\ Remainder(events[i].out) = Remainder(storedRef)
              /\ ~ContainsStr(events[i].out, RegistryHost(storedRef))

\* the copies that succeeded, in the order they were made
GoodCopies == {i \in Copies : events[i].ok}

\* C27: with a content-preserving copy, once promote(src->dst) has succeeded
\* the destination reference resolves to the digest of the source reference;
\* once the following promote(dst->src) has succeeded too, the first
\* destination (under dst), the second destination (under src) and the stored
\* reference itself all resolve to one digest, the one the reference is
\* pinned to.
C27_PromoteThereAndBackKeepsDigest ==
    /\ \A i \in GoodCopies :
          /\ Stored(registry, events[i].tag)
          /\ Stored(registry, events[i].out)
          /\ Resolve(registry, events[i].out).digest = Resolve(registry, events[i].tag).digest
          /\ Resolve(registry, events[i].out).digest = DigestOfRef(storedRef)
    /\ (cfg.command = "promote" /\ cfg.run = 2 /\ pc = "done") =>
          /\ Cardinality(GoodCopies) = 2
          /\ \E i, j \in GoodCopies :
                /\ i < j
                /\ events[i].tag = storedRef
                /\ events[j].tag = storedRef
                /\ HasPrefix(events[i].out, TrimSuffix(cfg.srcRepo, <<"/">>) \o <<"/">>)
                /\ HasPrefix(events[j].out, TrimSuffix(cfg.destRepo, <<"/">>) \o <<"/">>)
                /\ Resolve(registry, events[i].out).digest = Resolve(registry, events[j].out).digest

C27_Witness ==
    /\ cfg.command = "promote"
    /\ cfg.run = 2
    /\ pc = "done"
    /\ result = "ok"
    /\ storedRef = AppRef
    /\ Cardinality(GoodCopies) = 2

\* the calls watch has made
Reconciles == {i \in DOMAIN events : events[i].op = "reconcile"}
Queries == {i \in DOMAIN events : events[i].op = "query"}
Rollouts == {i \in DOMAIN events : events[i].op = "rollout"}

\* t is the tag of the reference: what stands between the last ':' of the
\* part before '@' and its end
IsVersionOf(t, ref) ==
    /\ t # <<>>
    /\ ~Contains(t, ":")
    /\ HasSuffix(SplitHead(ref, "@"), <<":">> \o t)

\* the query of events[i] returned a string that contains the tag waited for
\* or the whole stored reference
Hit(i) ==
    /\ i \in Queries
    /\ events[i].ok
    /\ events[i].out # <<>>
    /\ \/ ContainsStr(events[i].out, storedRef)
       \/ \E k \in 1..Len(events[i].out), n \in 1..Len(events[i].out) :
             /\ k <= n
             /\ IsVersionOf(SubSeq(events[i].out, k, n), storedRef)

\* C28: in a watch run rollout-status is invoked at most once, right after the
\* first image query that returned a string containing the version tag or the
\* full stored reference and after no other; nothing is called after it; and
\* watch returns success if and only if that call succeeds.
C28_RolloutOnceAfterFirstMatch ==
    cfg.command = "watch" =>
        /\ Cardinality(Rollouts) <= 1
        /\ \A r \in Rollouts :
              /\ r = Len(events)
              /\ r > 1 /\ Hit(r - 1)
              /\ \A k \in 1..(r - 2) : ~Hit(k)
              /\ pc \in {"done", "failed"}
              /\ events[r].ok <=> (pc = "done" /\ result = "ok")
              /\ ~events[r].ok <=> (pc = "failed" /\ failedOp = "rollout" /\ result = "error")
        /\ \A i \in Queries :
              Hit(i) => \/ i = Len(events) /\ pc = "rollout"
                        \/ i + 1 \in Rollouts
        /\ result = "ok" => \E r \in Rollouts : events[r].ok
        /\ pc = "rollout" <=> (Rollouts = {} /\ Len(events) > 0 /\ Hit(Len(events)))

C28_Witness ==
    /\ cfg.command = "watch"
    /\ pc = "done"
    /\ result = "ok"
    /\ polls = 1
    /\ Cardinality(Queries) = 2
    /\ ~Hit(Len(events) - 3)
    /\ Hit(Len(events) - 1)
    /\ events[Len(events) - 1].out = ImageV10
    /\ Rollouts = {Len(events)}

\* watch has entered its poll loop
Polling == cfg.command = "watch" /\ pc = "reconcile" /\ polls = 0

\* watch has returned the error of the poll timeout
TimedOut == pc = "failed" /\ failedOp = "timeout" /\ result = "error"

Miss(i) == i \in Queries /\ (~events[i].ok \/ events[i].out = <<>>)

\* C30: on any poll, a reconcile request that fails is followed by the image
\* query all the same, and an image query that fails or returns an empty
\* string is no match, whatever it printed: no rollout-status call follows it,
\* watch does not return on it, and the loop goes on to the next poll; once in
\* the loop, watch ends only by the poll timeout or after a match.
C30_PollErrorsAreSwallowed ==
    cfg.command = "watch" =>
        /\ \A i \in Reconciles :
              /\ i = Len(events) => pc = "query"
              /\ i < Len(events) => events[i + 1].op = "query"
        /\ \A i \in Queries :
              Miss(i) =>
                /\ ~Hit(i)
                /\ i = Len(events) => \/ pc = "select"
                                      \/ pc = "reconcile" /\ polls > 0
                                      \/ TimedOut
                /\ i < Len(events) => events[i + 1].op = "reconcile"
        /\ (events # <<>> /\ pc \in {"done", "failed"}) =>
              \/ TimedOut
              \/ \E i \in Queries : Hit(i)

C30_Witness ==
    /\ cfg.command = "watch"
    /\ Len(events) = 4
    /\ ~events[1].ok
    /\ Miss(2)
    /\ events[2].out = ImageV10
    /\ ContainsStr(events[2].out, extractVersionTag(storedRef))
    /\ Hit(4)
    /\ polls = 1
    /\ pc = "rollout"

\* what is left of a reference once everything from the first '@' on is removed
BeforeAt(ref) == SplitHead(ref, "@")

\* C31: for every stored reference, the version tag watch waits for is what
\* follows the last ':' of the part before the first '@' (that whole part when
\* it has no ':'), so it holds no '@' and nothing of the digest.
C31_VersionTagDropsDigest ==
    (cfg.command = "watch" /\ PastSelect) =>
        LET rest == BeforeAt(storedRef)
            v == TimedOutError.tag
        IN  /\ v = IF Contains(rest, ":")
                   THEN SubSeq(rest, LastIndex(rest, ":") + 1, Len(rest))
                   ELSE rest
            /\ ~Contains(v, "@")

\* C32: the poll phase of watch is bounded by the overall poll timeout also
\* when a reconcile request or an image query never returns: a run that has
\* entered the loop and sees no match ends with the timeout error.
C32_PollPhaseBounded ==
    Polling ~> (TimedOut \/ \E i \in Queries : Hit(i))

\* event e is a container build handed to the runtime: a per-platform
\* `docker build`, the delegation of one container-build artifact, or the
\* delegation of a whole push-disabled build that holds one
ContainerBuild(e) ==
    \/ e.op = "docker"
    \/ e.op = "skaffold" /\ e.ai > 0
    \/ e.op = "skaffold" /\ e.ai = 0
          /\ \E k \in DOMAIN artifactsToRun : artifactsToRun[k].kind = "docker"

\* C33: every container-build dispatch of the engine - per-platform subprocess
\* or single-platform delegation - runs with BUILDX_NO_DEFAULT_ATTESTATIONS=1,
\* whatever the ambient environment sets it to.
C33_AttestationsOffEverywhere ==
    \A i \in DOMAIN events :
        ContainerBuild(events[i]) =>
            /\ MapHas(events[i].env, <<Attest>>)
            /\ MapGet(events[i].env, <<Attest>>) = <<"1">>

\* C34: at the end of a successful push-enabled run the registry serves, at
\* the reference of every contract entry, the digest the entry records: no
\* later step of the run has overwritten it, and no two artifacts of the run
\* have published to one FullTag, in ephemeral-registry mode either.
C34_ContractDigestsServed ==
    (Succeeded /\ cfg.push) =>
        /\ \A i \in DOMAIN built :
              Contains(built[i].tag, "@") =>
                 /\ Stored(registry, built[i].tag)
                 /\ Resolve(registry, built[i].tag).digest = DigestOfRef(built[i].tag)
        /\ \A j, k \in DOMAIN artifactsToRun :
              (j # k /\ PathOf(artifactsToRun[j]) \in {"pack", "docker"}
                     /\ PathOf(artifactsToRun[k]) \in {"pack", "docker"})
              => FullTagOf(artifactsToRun[j]) # FullTagOf(artifactsToRun[k])

\* the per-platform builds of a fanned-out artifact in the log
FanOutBuilds ==
    {i \in DOMAIN events :
        /\ events[i].op \in {"dispatch", "docker"}
        /\ PathOf(artifactsToRun[events[i].ai]) \in {"pack", "docker"}}

\* C35: in a multi-platform build, whatever the requested platform list (an
\* empty or a repeated entry included), the per-platform tags of one artifact
\* are pairwise distinct and none of them is the artifact's FullTag, so the
\* manifest list written at FullTag overwrites none of the images it lists.
C35_PerPlatformTagsDistinct ==
    (cfg.push /\ Len(platforms) > 1) =>
        \A i \in FanOutBuilds :
            /\ RegistryKey(events[i].tag) # RegistryKey(FullTagOf(artifactsToRun[events[i].ai]))
            /\ \A j \in FanOutBuilds :
                  (j # i /\ events[j].ai = events[i].ai) => events[j].tag # events[i].tag

\* the remote calls of the log
RemoteCalls == {i \in DOMAIN events : events[i].op \in {"get", "writeIndex", "head", "retag"}}

\* C36: a remote call parses its reference with plain HTTP allowed, or runs
\* over the transport that skips TLS verification, only if the registry host
\* of the reference is one of the configured insecure hosts; a host that only
\* starts with the characters of a configured host, and any host when the
\* configured list has an empty item, is handled with verified TLS.
C36_InsecureOnlyForConfiguredHosts ==
    \A i \in RemoteCalls :
        (events[i].plainHTTP \/ events[i].skipVerify)
            => RegistryHost(events[i].tag) \in Range(cfg.insecure) \ {<<>>}

\* the queries after which the poll loop ended
LoopEnders ==
    {i \in Queries : i + 1 \in Rollouts \/ (i = Len(events) /\ pc = "rollout")}

C38_ContractIsOfThisRun ==
    (Succeeded /\ file.state # "absent") =>
        /\ ReadBuildResult(file).err = ""
        /\ ReadBuildResult(file).builds = built
        /\ (cfg.priorFile.state # "absent" /\ cfg.priorFile.builds # built)
              => file # cfg.priorFile

====
